---- MODULE Spec2Model ----
(***************************************************************************)
(* Workspace provisioning and lifecycle engine of opencode-manager         *)
(* (backend/src/services/repo.ts with the record store of db/queries).     *)
(*                                                                         *)
(* The engine's handlers are async functions: each runs synchronously up   *)
(* to its next awaited external command.  A handler is modelled as a call  *)
(* frame (its position pc and its local variables) advanced by one action  *)
(* per awaited command; the action performs the command on the file system *)
(* and then the synchronous code that follows it, record-store calls       *)
(* included.  Strings that the code takes apart (URLs, branch names,       *)
(* directory names) are sequences of one-character strings.                *)
(***************************************************************************)
EXTENDS Integers, Sequences, FiniteSets, TLC

(***************************************************************************)
(* Bounds of the model.                                                    *)
(***************************************************************************)
MaxCalls == 3
MaxFaults == 1
MaxLeftover == 1
MaxConcCalls == 2
MaxWtCalls == 2
MaxTdCalls == 3
MaxUrlCalls == 2
MaxRcCalls == 2
MaxOrphans == 2
MaxStCalls == 2
MaxEvents == 4

(***************************************************************************)
(* Strings.                                                                *)
(***************************************************************************)
Main == <<"m", "a", "i", "n">>
NoBranch == <<>>
BranchSlash == <<"f", "/", "x">>
BranchDash == <<"f", "-", "x">>
UrlA == <<"h", "/", "r", ".", "g", "i", "t">>
UrlB == <<"k", "/", "r">>
DotGit == <<".", "g", "i", "t">>
NoMatchName == <<"r", "e", "p", "o", "-", "T">>

AllURLs == {UrlA, UrlB}
BranchNames == {Main, BranchSlash, BranchDash}
BranchArgs == BranchNames \cup {NoBranch}

\* The remote repositories: every URL serves these branches, and the branch
\* its HEAD names (what origin/HEAD is in a clone) is main or another of them.
VARIABLES remoteHead

RemoteBranches(url) == {Main, BranchSlash}
RemoteHeads == {Main, BranchSlash}
RemoteHead(url) == remoteHead

\* Index of the last "/" of s, 0 when there is none.
LastSlash(s) ==
  LET idx == {i \in 1..Len(s) : s[i] = "/"}
  IN IF idx = {} THEN 0 ELSE CHOOSE i \in idx : \A j \in idx : j <= i

EndsWith(s, t) ==
  /\ Len(s) >= Len(t)
  /\ SubSeq(s, Len(s) - Len(t) + 1, Len(s)) = t

\* A faulty extractRepoName: the .git suffix is kept.
extractRepoNameBuggy(url) == SubSeq(url, LastSlash(url) + 1, Len(url))
\* url.match(/\/([^\/]+?)(\.git)?$/)?.[1] ?? `repo-${Date.now()}`
extractRepoName(url) ==
  LET k == LastSlash(url)
      seg == SubSeq(url, k + 1, Len(url))
  IN IF k = 0 \/ seg = <<>> THEN NoMatchName
     ELSE IF EndsWith(seg, DotGit) /\ Len(seg) > Len(DotGit)
          THEN SubSeq(seg, 1, Len(seg) - Len(DotGit))
          ELSE seg

\* branch.replace(/[\\/]/g, '-')
sanitizeBranch(branch) ==
  [i \in 1..Len(branch) |-> IF branch[i] \in {"/", "\\"} THEN "-" ELSE branch[i]]

\* cloneRepo's worktreeDirName (= localPath)
worktreeDirName(url, branch, useWorktree) ==
  IF branch # NoBranch /\ useWorktree
  THEN extractRepoName(url) \o <<"-">> \o sanitizeBranch(branch)
  ELSE extractRepoName(url)

\* The names an entry of the workspaces root can have here: those the
\* engine derives, and a dot name left there by something else.
HiddenDir == <<".", "c">>
IsHidden(d) == d[1] = "."
DirNames ==
  {worktreeDirName(u, b, w) : u \in AllURLs, b \in BranchArgs, w \in BOOLEAN}
    \cup {HiddenDir}

(***************************************************************************)
(* The record store (table repos).                                         *)
(***************************************************************************)
NoRepo == [id |-> 0]

getRepoById(store, id) ==
  IF \E r \in store : r.id = id
  THEN CHOOSE r \in store : r.id = id
  ELSE NoRepo

\* SELECT * FROM repos WHERE repo_url = ? AND branch = ? / branch IS NULL;
\* stmt.get returns the first row, the one with the least rowid.
getRepoByUrlAndBranch(store, url, branch) ==
  LET hits == {r \in store : r.repoUrl = url /\ r.branch = branch}
  IN IF hits = {} THEN NoRepo
     ELSE CHOOSE r \in hits : \A q \in hits : r.id <= q.id

listRepos(store) == store

updateRepoStatus(store, id, status) ==
  {IF r.id = id THEN [r EXCEPT !.cloneStatus = status] ELSE r : r \in store}

updateLastPulled(store, id, now) ==
  {IF r.id = id THEN [r EXCEPT !.lastPulled = now] ELSE r : r \in store}

deleteRepo(store, id) == {r \in store : r.id # id}

\* The table's uniqueness constraint that INSERT OR IGNORE respects: one row
\* per (repo_url, branch), the absent branch being a value of its own.
UniqueConflict(store, input) ==
  \E r \in store : r.repoUrl = input.repoUrl /\ r.branch = input.branch

\* The id the table gives a new row.
NewRowId(db) == db.nextId

InsertRow(db, input) ==
  [store |-> db.store \cup {[id |-> NewRowId(db),
                             repoUrl |-> input.repoUrl,
                             localPath |-> input.localPath,
                             branch |-> input.branch,
                             defaultBranch |-> input.defaultBranch,
                             cloneStatus |-> input.cloneStatus,
                             clonedAt |-> input.clonedAt,
                             lastPulled |-> 0,
                             isWorktree |-> input.isWorktree]},
   nextId |-> db.nextId + 1]

\* A faulty createRepo: a plain INSERT, whatever the table holds.
createRepoNoIgnore(db, input) ==
  [db |-> InsertRow(db, input), repo |-> getRepoById(InsertRow(db, input).store, NewRowId(db)),
   ok |-> TRUE, changes |-> 1]
\* createRepo: [db, repo, ok, changes]; ok = FALSE is 'Failed to create repo
\* and no existing repo found', changes is result.changes of the INSERT.
createRepo(db, input) ==
  IF UniqueConflict(db.store, input)
  THEN LET existing == getRepoByUrlAndBranch(db.store, input.repoUrl, input.branch)
       IN [db |-> db, repo |-> existing, ok |-> existing.id # 0, changes |-> 0]
  ELSE LET after == InsertRow(db, input)
       IN [db |-> after, repo |-> getRepoById(after.store, NewRowId(db)), ok |-> TRUE,
           changes |-> 1]

(***************************************************************************)
(* The workspaces root: fs maps every directory name to what is there.     *)
(* A clone holds its origin URL, its checked-out branch, its local         *)
(* branches and the worktrees registered in its metadata (path and the     *)
(* branch checked out there); a worktree directory points at its base.     *)
(* Remote-tracking refs of a clone are the remote's branches.              *)
(***************************************************************************)
AbsentDir == [kind |-> "absent"]
JunkDir == [kind |-> "junk"]
CloneDir(url, head) ==
  [kind |-> "clone", url |-> url, head |-> head, locals |-> {head}, wts |-> {}]
WtDir(base) == [kind |-> "wt", base |-> base]

Exists(fs, d) == fs[d].kind # "absent"
IsClone(fs, d) == fs[d].kind = "clone"
Registered(fs, base, path) ==
  IsClone(fs, base) /\ \E g \in fs[base].wts : g.path = path
IsLinkedWt(fs, d) ==
  fs[d].kind = "wt" /\ Registered(fs, fs[d].base, d)
\* git -C d rev-parse --git-dir succeeds
IsValidRepo(fs, d) == IsClone(fs, d) \/ IsLinkedWt(fs, d)
\* The directory holding the repository that d is a working tree of.
RepoDir(fs, d) == IF IsClone(fs, d) THEN d ELSE fs[d].base
RegOf(fs, d) == CHOOSE g \in fs[fs[d].base].wts : g.path = d
HeadOf(fs, d) == IF IsClone(fs, d) THEN fs[d].head ELSE RegOf(fs, d).head
LocalsOf(fs, d) == fs[RepoDir(fs, d)].locals
UrlOf(fs, d) == fs[RepoDir(fs, d)].url
\* Branches checked out in a working tree of d's repository other than d.
UsedElsewhere(fs, d) ==
  LET r == RepoDir(fs, d)
  IN {g.head : g \in {h \in fs[r].wts : h.path # d}}
       \cup (IF r = d THEN {} ELSE {fs[r].head})
WithLocal(fs, d, b) ==
  LET r == RepoDir(fs, d)
  IN [fs EXCEPT ![r].locals = @ \cup {b}]
WithHead(fs, d, b) ==
  IF IsClone(fs, d)
  THEN [fs EXCEPT ![d].head = b]
  ELSE [fs EXCEPT ![fs[d].base].wts =
          {IF g.path = d THEN [g EXCEPT !.head = b] ELSE g : g \in @}]

(***************************************************************************)
(* External commands.  Each yields [ok, fs, out, msg]: whether it exited   *)
(* with status 0, the file system after it, its output and, when it        *)
(* failed, the class of its error message.                                 *)
(***************************************************************************)
Ok(fs, out) == [ok |-> TRUE, fs |-> fs, out |-> out, msg |-> ""]
Fail(fs, msg) == [ok |-> FALSE, fs |-> fs, out |-> "", msg |-> msg]

\* bash -c 'test -d d && echo exists || echo missing'
TestDir(fs, d) == Ok(fs, IF Exists(fs, d) THEN "exists" ELSE "missing")
\* rm -rf d
RmRf(fs, d) == Ok([fs EXCEPT ![d] = AbsentDir], "")
\* ls -1: the entries whose name does not start with a dot
Ls(fs) == Ok(fs, {d \in DirNames : Exists(fs, d) /\ ~IsHidden(d)})
\* git -C d rev-parse --git-dir
RevParseGitDir(fs, d) ==
  IF IsValidRepo(fs, d) THEN Ok(fs, "") ELSE Fail(fs, "not a git repository")
\* git -C d rev-parse --abbrev-ref HEAD
RevParseHead(fs, d) ==
  IF IsValidRepo(fs, d) THEN Ok(fs, HeadOf(fs, d)) ELSE Fail(fs, "not a git repository")
\* git -C d rev-parse --abbrev-ref origin/HEAD (the output keeps the origin/ prefix)
RevParseOriginHead(fs, d) ==
  IF IsValidRepo(fs, d)
  THEN Ok(fs, <<"o", "r", "i", "g", "i", "n", "/">> \o RemoteHead(UrlOf(fs, d)))
  ELSE Fail(fs, "not a git repository")
\* git -C d rev-parse --verify refs/heads/b
VerifyLocal(fs, d, b) ==
  IF IsValidRepo(fs, d) /\ b \in LocalsOf(fs, d) THEN Ok(fs, "") ELSE Fail(fs, "needed a single revision")
\* git -C d rev-parse --verify refs/remotes/origin/b
VerifyRemote(fs, d, b) ==
  IF IsValidRepo(fs, d) /\ b \in RemoteBranches(UrlOf(fs, d))
  THEN Ok(fs, "") ELSE Fail(fs, "needed a single revision")
\* git -C d fetch --all ; git -C d pull
Fetch(fs, d) == IF IsValidRepo(fs, d) THEN Ok(fs, "") ELSE Fail(fs, "not a git repository")
Pull(fs, d) == IF IsValidRepo(fs, d) THEN Ok(fs, "") ELSE Fail(fs, "not a git repository")

\* git -C d checkout b: an existing local branch, or a new one tracking the
\* remote branch of that name; refused when b is checked out in another
\* working tree of the repository.
Checkout(fs, d, b) ==
  IF ~IsValidRepo(fs, d) THEN Fail(fs, "not a git repository")
  ELSE IF b = HeadOf(fs, d) THEN Ok(fs, "")
  ELSE IF b \in UsedElsewhere(fs, d) THEN Fail(fs, "already used by worktree")
  ELSE IF b \in LocalsOf(fs, d) \cup RemoteBranches(UrlOf(fs, d))
       THEN Ok(WithHead(WithLocal(fs, d, b), d, b), "")
       ELSE Fail(fs, "pathspec did not match")

\* git -C d checkout -b b [origin/b]
CheckoutNew(fs, d, b, tracking) ==
  IF ~IsValidRepo(fs, d) THEN Fail(fs, "not a git repository")
  ELSE IF b \in LocalsOf(fs, d) THEN Fail(fs, "a branch named b already exists")
  ELSE IF tracking /\ b \notin RemoteBranches(UrlOf(fs, d)) THEN Fail(fs, "not a commit")
  ELSE Ok(WithHead(WithLocal(fs, d, b), d, b), "")

\* git clone [-b b] url d, run in the workspaces root
Clone(fs, url, b, d) ==
  IF Exists(fs, d) THEN Fail(fs, "destination path already exists")
  ELSE IF b # NoBranch /\ b \notin RemoteBranches(url)
       THEN Fail(fs, "Remote branch not found")
       ELSE Ok([fs EXCEPT ![d] = CloneDir(url, IF b = NoBranch THEN RemoteHead(url) ELSE b)], "")

\* git -C base worktree add path b  /  git -C base worktree add -b b path.
\* The branch is created (-b, or from the remote branch of that name) before
\* the path is examined.
WorktreeAdd(fs, base, path, b, new) ==
  IF ~IsClone(fs, base) THEN Fail(fs, "not a git repository")
  ELSE IF new /\ b \in fs[base].locals THEN Fail(fs, "a branch named b already exists")
  ELSE IF ~new /\ b \notin fs[base].locals \cup RemoteBranches(fs[base].url)
       THEN Fail(fs, "invalid reference")
  ELSE LET fs1 == WithLocal(fs, base, b)
       IN IF Exists(fs, path) THEN Fail(fs1, "path already exists")
          ELSE IF Registered(fs, base, path)
               THEN Fail(fs1, "missing but already registered worktree")
          ELSE IF b = fs[base].head \/ \E g \in fs[base].wts : g.head = b
               THEN Fail(fs1, "already used by worktree")
          ELSE Ok([fs1 EXCEPT ![base].wts = @ \cup {[path |-> path, head |-> b]},
                              ![path] = WtDir(base)], "")

\* git -C base worktree remove [--force] path
WorktreeRemove(fs, base, path) ==
  IF ~IsClone(fs, base) THEN Fail(fs, "not a git repository")
  ELSE IF ~Registered(fs, base, path) THEN Fail(fs, "is not a working tree")
  ELSE Ok([fs EXCEPT ![base].wts = {g \in @ : g.path # path},
                     ![path] = IF fs[path] = WtDir(base) THEN AbsentDir ELSE @], "")

\* git -C base worktree prune
WorktreePrune(fs, base) ==
  IF ~IsClone(fs, base) THEN Fail(fs, "not a git repository")
  ELSE Ok([fs EXCEPT ![base].wts = {g \in @ : fs[g.path] = WtDir(base)}], "")

\* git -C base worktree list --porcelain: the paths listed
WorktreeList(fs, base) ==
  IF ~IsClone(fs, base) THEN Fail(fs, "not a git repository")
  ELSE Ok(fs, {base} \cup {g.path : g \in fs[base].wts})

\* executeCommand: the command's result, or a failure of the process itself
\* (network, permissions, a dirty tree) that leaves the file system as it was.
executeCommand(fault, fs, result) ==
  IF fault THEN Fail(fs, "command failed") ELSE result

\* The same for git clone, whose outside failures come with one of two
\* messages: one that says nothing the callers look for, and git's
\* "repository '...' not found".
CloneFailures == {"command failed", "repository not found"}
executeClone(fault, msg, fs, result) ==
  IF fault THEN Fail(fs, msg) ELSE result

\* error.message.includes(part), for the messages of the model.
Includes(msg, part) ==
  part \in (CASE msg = "Remote branch not found" -> {"Remote branch", "not found"}
             [] msg = "repository not found" -> {"not found"}
             [] msg = "destination path already exists" ->
                  {"destination path", "already exists"}
             [] OTHER -> {})

(***************************************************************************)
(* Call frames.  pc names the awaited command the handler is at; "ret"     *)
(* means it has returned (ok, ret) or thrown (~ok, err).  last is the      *)
(* command the call ran last, failed whether any of its commands failed,   *)
(* adds the number of git worktree add commands it has run, inserted       *)
(* whether the INSERT of its createRepo added a row.                       *)
(***************************************************************************)
\* What getCurrentBranch returns: null, or a branch's short name.
NullBranch == [null |-> TRUE, name |-> <<>>]
BranchResult(name) == [null |-> FALSE, name |-> name]

IdleFrame ==
  [op |-> "idle", pc |-> "idle", url |-> <<>>, branch |-> NoBranch, wt |-> FALSE,
   id |-> 0, repo |-> NoRepo, baseEx |-> FALSE, shouldWt |-> FALSE, alt |-> FALSE,
   attempt |-> 0, branchEx |-> FALSE, localEx |-> FALSE, remoteEx |-> FALSE,
   defb |-> NoBranch, todo |-> {}, ok |-> FALSE, err |-> "", ret |-> NoRepo,
   last |-> "", failed |-> FALSE, current |-> NullBranch, adds |-> 0,
   inserted |-> FALSE]

NewFrame(op) == [IdleFrame EXCEPT !.op = op]

Logged(f, tag) == [f EXCEPT !.last = tag]
Returned(f, ret) == [f EXCEPT !.pc = "ret", !.ok = TRUE, !.ret = ret]
Thrown(f, err) == [f EXCEPT !.pc = "ret", !.ok = FALSE, !.err = err]
Goto(f, pc) == [f EXCEPT !.pc = pc]

\* s.split('/').pop() || s
LastSegment(s) ==
  LET seg == SubSeq(s, LastSlash(s) + 1, Len(s))
  IN IF seg = <<>> THEN s ELSE seg

IsPrefix(s, t) == Len(s) <= Len(t) /\ SubSeq(t, 1, Len(s)) = s

OriginSlash == <<"o", "r", "i", "g", "i", "n", "/">>
\* ref.replace('origin/', '') for a ref that starts with origin/ or holds no origin/
StripOrigin(ref) ==
  IF IsPrefix(OriginSlash, ref) THEN SubSeq(ref, Len(OriginSlash) + 1, Len(ref)) ELSE ref

maxRetries == 3

(***************************************************************************)
(* cloneRepo (provision).                                                  *)
(***************************************************************************)
\* A faulty cloneRepoCall: the existing row is not looked for.
cloneRepoCallNoShortCircuit(f, w, url, branch, useWorktree) ==
  [f |-> Goto([f EXCEPT !.url = url, !.branch = branch, !.wt = useWorktree], "testBase"),
   w |-> w]
\* A faulty cloneRepoCall: the row is inserted in the step of the lookup.
cloneRepoCallInsertsAtOnce(f, w, url, branch, useWorktree) ==
  LET existing == getRepoByUrlAndBranch(w.store, url, branch)
      f1 == [f EXCEPT !.url = url, !.branch = branch, !.wt = useWorktree]
      input == [repoUrl |-> url, localPath |-> worktreeDirName(url, branch, useWorktree),
                branch |-> branch,
                defaultBranch |-> IF branch # NoBranch THEN branch ELSE Main,
                cloneStatus |-> "cloning", clonedAt |-> 0, isWorktree |-> FALSE]
      c == createRepo([store |-> w.store, nextId |-> w.nextId], input)
  IN IF existing.id # 0
     THEN [f |-> Returned(f1, existing), w |-> w]
     ELSE [f |-> Goto(f1, "testBase"),
           w |-> [w EXCEPT !.store = c.db.store, !.nextId = c.db.nextId]]
\* Lines 17-27: the names, and the short-circuit on an existing row.
cloneRepoCall(f, w, url, branch, useWorktree) ==
  LET existing == getRepoByUrlAndBranch(w.store, url, branch)
      f1 == [f EXCEPT !.url = url, !.branch = branch, !.wt = useWorktree]
  IN IF existing.id # 0
     THEN [f |-> Returned(f1, existing), w |-> w]
     ELSE [f |-> Goto(f1, "testBase"), w |-> w]

\* A faulty cloneRepoCatch: the error is rethrown, the row is kept.
cloneRepoCatchNoDelete(f, w, err) == [f |-> Thrown(f, err), w |-> w]
\* The catch of lines 224-228: the compensating delete, and the rethrow.
cloneRepoCatch(f, w, err) ==
  [f |-> Thrown(f, err),
   w |-> [w EXCEPT !.store = deleteRepo(w.store, f.repo.id)]]

\* A faulty cloneRepoReady: the row is returned as ready, the store is not told.
cloneRepoReadyNoUpdate(f, w) ==
  [f |-> Returned(f, [f.repo EXCEPT !.cloneStatus = "ready"]), w |-> w]
\* Lines 161-162 and 221-223: the row is marked ready and returned.
cloneRepoReady(f, w) ==
  [f |-> Returned(f, [f.repo EXCEPT !.cloneStatus = "ready"]),
   w |-> [w EXCEPT !.store = updateRepoStatus(w.store, f.repo.id, "ready")]]

\* A faulty shouldUseWorktree: the base clone's directory is not asked for.
shouldUseWorktreeAnyBase(useWorktree, branch, baseRepoExists) ==
  useWorktree /\ branch # NoBranch
\* Line 32: shouldUseWorktree.
shouldUseWorktree(useWorktree, branch, baseRepoExists) ==
  useWorktree /\ branch # NoBranch /\ baseRepoExists

\* Lines 30-47 and the dispatch of lines 58, 78, 121-122: the base clone's
\* directory is looked for, the row is inserted, and the mode is chosen.
cloneRepoInsert(f, w, fault, now) ==
  LET r == executeCommand(fault, w.fs, TestDir(w.fs, extractRepoName(f.url)))
      baseEx == r.out = "exists"
      shouldWt == shouldUseWorktree(f.wt, f.branch, baseEx)
      input == [repoUrl |-> f.url,
                localPath |-> worktreeDirName(f.url, f.branch, f.wt),
                branch |-> f.branch,
                defaultBranch |-> IF f.branch # NoBranch THEN f.branch ELSE Main,
                cloneStatus |-> "cloning",
                clonedAt |-> now,
                isWorktree |-> shouldWt]
      c == createRepo([store |-> w.store, nextId |-> w.nextId], input)
      f1 == [Logged(f, "test -d base") EXCEPT !.baseEx = baseEx, !.shouldWt = shouldWt,
                                             !.repo = c.repo,
                                             !.inserted = (c.changes = 1)]
      w1 == [w EXCEPT !.store = c.db.store, !.nextId = c.db.nextId]
  IN IF ~r.ok THEN [f |-> Thrown(Logged(f, "test -d base"), "CommandFailed"), w |-> w]
     ELSE IF ~c.ok THEN [f |-> Thrown(f1, "Failed to create repo"), w |-> w1]
     ELSE IF shouldWt THEN [f |-> Goto(f1, "wt_fetch"), w |-> w1]
     ELSE IF f.branch # NoBranch /\ baseEx /\ f.wt
          THEN [f |-> Goto([f1 EXCEPT !.alt = TRUE], "test"), w |-> w1]
     ELSE IF baseEx THEN [f |-> Goto(f1, "base_valid"), w |-> w1]
     ELSE [f |-> Goto(f1, "test"), w |-> w1]

BaseOf(f) == extractRepoName(f.url)
TargetOf(f) == worktreeDirName(f.url, f.branch, f.wt)

\* One executed command: the frame with the command noted (and whether any
\* command of the call has failed so far), the world with the file system
\* the command left.
Ran(f, w, r, tag) ==
  [f |-> [Logged(f, tag) EXCEPT !.failed = @ \/ ~r.ok],
   w |-> [w EXCEPT !.fs = r.fs]]

(***************************************************************************)
(* createWorktreeSafely with cleanupStaleWorktree and                      *)
(* pruneWorktreeReferences, as called by cloneRepo: a normal return        *)
(* continues cloneRepo at wt_verify, a throw lands in cloneRepo's catch.   *)
(***************************************************************************)
\* A faulty afterCleanup: a failed cleanup ends the call at any attempt.
afterCleanupNoRetry(f, w, cleaned) ==
  IF ~cleaned
  THEN cloneRepoCatch(f, w, "WorktreeConflict")
  ELSE IF f.attempt + 1 <= maxRetries
       THEN [f |-> Goto([f EXCEPT !.attempt = @ + 1], "ws_add"), w |-> w]
       ELSE [f |-> Goto([f EXCEPT !.attempt = @ + 1], "wt_verify"), w |-> w]
\* A faulty afterCleanup: the loop goes round without counting the attempt.
afterCleanupNoCount(f, w, cleaned) ==
  IF ~cleaned /\ f.attempt = maxRetries
  THEN cloneRepoCatch(f, w, "WorktreeConflict")
  ELSE [f |-> Goto(f, "ws_add"), w |-> w]
\* Lines 597-611 after cleanupStaleWorktree has answered: throw, or go round
\* the loop again; the call returns when the loop runs out.
afterCleanup(f, w, cleaned) ==
  IF ~cleaned /\ f.attempt = maxRetries
  THEN cloneRepoCatch(f, w, "WorktreeConflict")
  ELSE IF f.attempt + 1 <= maxRetries
       THEN [f |-> Goto([f EXCEPT !.attempt = @ + 1], "ws_add"), w |-> w]
       ELSE [f |-> Goto([f EXCEPT !.attempt = @ + 1], "wt_verify"), w |-> w]

\* A faulty afterAddFailure: the failure ends the call at any attempt.
afterAddFailureFatal(f, w) == cloneRepoCatch(f, w, "WorktreeFailed")
\* Lines 606-610, for a failed add whose message is not 'already used by
\* worktree': throw on the last attempt, else go round the loop again.
afterAddFailure(f, w) ==
  IF f.attempt = maxRetries
  THEN cloneRepoCatch(f, w, "WorktreeFailed")
  ELSE [f |-> Goto([f EXCEPT !.attempt = @ + 1], "ws_add"), w |-> w]

\* A faulty defaultBranchOf: the origin/ prefix is kept.
defaultBranchUnstripped(r) == IF r.ok THEN r.out ELSE Main
\* Lines 550-552: defaultBranch, from the answer to rev-parse origin/HEAD.
defaultBranchOf(r) == IF r.ok THEN StripOrigin(r.out) ELSE Main

createWorktreeSafelyStep(f, w, fault) ==
  LET base == BaseOf(f)
      path == TargetOf(f)
  IN CASE f.pc = "ws_head" ->
            LET r == executeCommand(fault, w.fs, RevParseHead(w.fs, base))
                x == Ran(f, w, r, "rev-parse HEAD")
            IN IF ~r.ok THEN cloneRepoCatch(x.f, x.w, "CommandFailed")
               ELSE IF r.out = f.branch THEN [x EXCEPT !.f.pc = "ws_defb"]
               ELSE [x EXCEPT !.f.pc = "ws_local"]
       [] f.pc = "ws_defb" ->
            LET r == executeCommand(fault, w.fs, RevParseOriginHead(w.fs, base))
                x == Ran(f, w, r, "rev-parse origin/HEAD")
            IN [x EXCEPT !.f.pc = "ws_co", !.f.defb = defaultBranchOf(r)]
       [] f.pc = "ws_co" ->
            LET r == executeCommand(fault, w.fs, Checkout(w.fs, base, f.defb))
                x == Ran(f, w, r, "checkout default")
            IN IF r.ok THEN [x EXCEPT !.f.pc = "ws_local"]
               ELSE [x EXCEPT !.f.pc = "ws_comain"]
       [] f.pc = "ws_comain" ->
            LET r == executeCommand(fault, w.fs, Checkout(w.fs, base, Main))
                x == Ran(f, w, r, "checkout main")
            IN IF r.ok THEN [x EXCEPT !.f.pc = "ws_local"]
               ELSE cloneRepoCatch(x.f, x.w, "CommandFailed")
       [] f.pc = "ws_local" ->
            LET r == executeCommand(fault, w.fs, VerifyLocal(w.fs, base, f.branch))
                x == Ran(f, w, r, "verify local")
            IN IF r.ok
               THEN [x EXCEPT !.f.pc = "ws_add", !.f.branchEx = TRUE, !.f.attempt = 1]
               ELSE [x EXCEPT !.f.pc = "ws_remote"]
       [] f.pc = "ws_remote" ->
            LET r == executeCommand(fault, w.fs, VerifyRemote(w.fs, base, f.branch))
                x == Ran(f, w, r, "verify remote")
            IN [x EXCEPT !.f.pc = "ws_add", !.f.branchEx = r.ok, !.f.attempt = 1]
       [] f.pc = "ws_add" ->
            LET r == executeCommand(fault, w.fs,
                                    WorktreeAdd(w.fs, base, path, f.branch, ~f.branchEx))
                x == Ran([f EXCEPT !.adds = @ + 1], w, r, "worktree add")
            IN IF r.ok THEN [x EXCEPT !.f.pc = "wt_verify"]
               ELSE IF r.msg = "already used by worktree" THEN [x EXCEPT !.f.pc = "cs_list"]
               ELSE afterAddFailure(x.f, x.w)
       [] f.pc = "cs_list" ->
            LET r == executeCommand(fault, w.fs, WorktreeList(w.fs, base))
                x == Ran(f, w, r, "worktree list")
            IN IF ~r.ok THEN afterCleanup(x.f, x.w, FALSE)
               ELSE IF \E q \in r.out : IsPrefix(path, q) THEN [x EXCEPT !.f.pc = "cs_remove"]
               ELSE [x EXCEPT !.f.pc = "cs_prune"]
       [] f.pc = "cs_remove" ->
            LET r == executeCommand(fault, w.fs, WorktreeRemove(w.fs, base, path))
                x == Ran(f, w, r, "worktree remove --force")
            IN afterCleanup(x.f, x.w, r.ok)
       [] f.pc = "cs_prune" ->
            LET r == executeCommand(fault, w.fs, WorktreePrune(w.fs, base))
                x == Ran(f, w, r, "worktree prune")
            IN afterCleanup(x.f, x.w, TRUE)

\* A faulty worktreeVerified: the row is marked ready whatever test -d says.
worktreeVerifiedUnchecked(f, w, r) == cloneRepoReady(f, w)
\* Lines 68-76 once test -d on the worktree path has answered r: the throw
\* when the directory is not there, else the way to line 221.
worktreeVerified(f, w, r) ==
  IF r.ok /\ r.out = "exists" THEN cloneRepoReady(f, w)
  ELSE cloneRepoCatch(f, w, "VerificationFailed")

\* A faulty verifyRemoved: the clone follows whatever the check answered.
verifyRemovedUnchecked(x, r) == [x EXCEPT !.f.pc = "clone"]
\* Lines 176-183 (and 86-93) once the check that follows rm -rf has answered
\* r: the clone when the directory is gone, else the error 'Cannot clone:
\* directory ... exists and could not be removed'.
verifyRemoved(x, r) ==
  IF r.ok /\ r.out # "exists" THEN [x EXCEPT !.f.pc = "clone"]
  ELSE cloneRepoCatch(x.f, x.w, "CannotClone")

\* Line 198: the test that sends a failed clone to the fallback.
shouldFallBack(branch, message) ==
  branch # NoBranch /\ (Includes(message, "Remote branch") \/ Includes(message, "not found"))

\* A faulty baseValidated: a failed rev-parse ends the call.
baseValidatedThrows(x, r) ==
  IF r.ok
  THEN IF x.f.branch # NoBranch THEN [x EXCEPT !.f.pc = "base_fetch"]
       ELSE cloneRepoReady(x.f, x.w)
  ELSE cloneRepoCatch(x.f, x.w, "CommandFailed")
\* Lines 124-166 once rev-parse --git-dir in the existing directory has
\* answered r: valid, the branch switch or the return at once; invalid
\* (any failure of the command), the removal that precedes the clone.
baseValidated(x, r) ==
  IF r.ok
  THEN IF x.f.branch # NoBranch THEN [x EXCEPT !.f.pc = "base_fetch"]
       ELSE cloneRepoReady(x.f, x.w)
  ELSE [x EXCEPT !.f.pc = "base_rm"]

\* Lines 129-159: the branch switch of a reused base clone, by what the two
\* ref lookups answered.
cloneRepoCheckout(fs, base, branch, localEx, remoteEx) ==
  IF localEx THEN [r |-> Checkout(fs, base, branch), tag |-> "checkout"]
  ELSE IF remoteEx THEN [r |-> CheckoutNew(fs, base, branch, TRUE), tag |-> "checkout -b origin"]
  ELSE [r |-> CheckoutNew(fs, base, branch, FALSE), tag |-> "checkout -b"]

cloneRepoStep(f, w, fault, msg) ==
  LET base == BaseOf(f)
      path == TargetOf(f)
  IN CASE f.pc = "wt_fetch" ->
            LET r == executeCommand(fault, w.fs, Fetch(w.fs, base))
                x == Ran(f, w, r, "fetch")
            IN IF r.ok THEN [x EXCEPT !.f.pc = "ws_head"]
               ELSE cloneRepoCatch(x.f, x.w, "CommandFailed")
       [] f.pc = "wt_verify" ->
            LET r == executeCommand(fault, w.fs, TestDir(w.fs, path))
                x == Ran(f, w, r, "test -d")
            IN worktreeVerified(x.f, x.w, r)
       [] f.pc = "base_valid" ->
            LET r == executeCommand(fault, w.fs, RevParseGitDir(w.fs, base))
                x == Ran(f, w, r, "rev-parse --git-dir")
            IN baseValidated(x, r)
       [] f.pc = "base_fetch" ->
            LET r == executeCommand(fault, w.fs, Fetch(w.fs, base))
                x == Ran(f, w, r, "fetch")
            IN IF r.ok THEN [x EXCEPT !.f.pc = "base_remote"]
               ELSE cloneRepoCatch(x.f, x.w, "CommandFailed")
       [] f.pc = "base_remote" ->
            LET r == executeCommand(fault, w.fs, VerifyRemote(w.fs, base, f.branch))
                x == Ran(f, w, r, "verify remote")
            IN [x EXCEPT !.f.pc = "base_local", !.f.remoteEx = r.ok]
       [] f.pc = "base_local" ->
            LET r == executeCommand(fault, w.fs, VerifyLocal(w.fs, base, f.branch))
                x == Ran(f, w, r, "verify local")
            IN [x EXCEPT !.f.pc = "base_co", !.f.localEx = r.ok]
       [] f.pc = "base_co" ->
            LET c == cloneRepoCheckout(w.fs, base, f.branch, f.localEx, f.remoteEx)
                r == executeCommand(fault, w.fs, c.r)
                x == Ran(f, w, r, c.tag)
            IN IF r.ok THEN cloneRepoReady(x.f, x.w)
               ELSE cloneRepoCatch(x.f, x.w, "CommandFailed")
       [] f.pc = "base_rm" ->
            LET r == executeCommand(fault, w.fs, RmRf(w.fs, base))
                x == Ran(f, w, r, "rm -rf base")
            IN IF r.ok THEN [x EXCEPT !.f.pc = "test"]
               ELSE cloneRepoCatch(x.f, x.w, "CommandFailed")
       [] f.pc = "test" ->
            LET r == executeCommand(fault, w.fs, TestDir(w.fs, path))
                x == Ran(f, w, r, "test -d")
            IN IF ~r.ok THEN cloneRepoCatch(x.f, x.w, "CommandFailed")
               ELSE IF r.out = "exists" THEN [x EXCEPT !.f.pc = "rm"]
               ELSE [x EXCEPT !.f.pc = "clone"]
       [] f.pc = "rm" ->
            LET r == executeCommand(fault, w.fs, RmRf(w.fs, path))
                x == Ran(f, w, r, "rm -rf")
            IN IF r.ok THEN [x EXCEPT !.f.pc = "verify"]
               ELSE cloneRepoCatch(x.f, x.w, "CannotClone")
       [] f.pc = "verify" ->
            LET r == executeCommand(fault, w.fs, TestDir(w.fs, path))
                x == Ran(f, w, r, "test -d")
            IN verifyRemoved(x, r)
       [] f.pc = "clone" ->
            LET r == executeClone(fault, msg, w.fs, Clone(w.fs, f.url, f.branch, path))
                x == Ran(f, w, r, IF f.branch # NoBranch THEN "clone -b" ELSE "clone")
            IN IF r.ok THEN cloneRepoReady(x.f, x.w)
               ELSE IF Includes(r.msg, "destination path") /\ Includes(r.msg, "already exists")
                    THEN cloneRepoCatch(x.f, x.w, "DirectoryConflict")
               ELSE IF f.alt \/ shouldFallBack(f.branch, r.msg)
                    THEN [x EXCEPT !.f.pc = "clone2"]
               ELSE cloneRepoCatch(x.f, x.w, "CommandFailed")
       [] f.pc = "clone2" ->
            LET r == executeCommand(fault, w.fs, Clone(w.fs, f.url, NoBranch, path))
                x == Ran(f, w, r, "clone")
            IN IF r.ok THEN [x EXCEPT !.f.pc = "local"]
               ELSE cloneRepoCatch(x.f, x.w, "CommandFailed")
       [] f.pc = "local" ->
            LET r == executeCommand(fault, w.fs, VerifyLocal(w.fs, path, f.branch))
                x == Ran(f, w, r, "verify local")
            IN [x EXCEPT !.f.pc = "co", !.f.localEx = r.ok]
       [] f.pc = "co" ->
            LET r == executeCommand(fault, w.fs,
                                    IF f.localEx THEN Checkout(w.fs, path, f.branch)
                                    ELSE CheckoutNew(w.fs, path, f.branch, FALSE))
                x == Ran(f, w, r, IF f.localEx THEN "checkout" ELSE "checkout -b")
            IN IF r.ok THEN cloneRepoReady(x.f, x.w)
               ELSE cloneRepoCatch(x.f, x.w, "CommandFailed")
       [] OTHER -> createWorktreeSafelyStep(f, w, fault)

(***************************************************************************)
(* deleteRepoFiles (deprovision).                                          *)
(***************************************************************************)
deleteRepoFilesCall(f, w, repoId) ==
  LET repo == getRepoById(w.store, repoId)
      f1 == [f EXCEPT !.id = repoId, !.repo = repo]
  IN IF repo.id = 0 THEN [f |-> Thrown(f1, "NotFound"), w |-> w]
     ELSE IF repo.isWorktree /\ repo.branch # NoBranch
          THEN [f |-> Goto(f1, "del_wt"), w |-> w]
          ELSE [f |-> Goto(f1, "del_rm"), w |-> w]

\* A faulty deleteRepoFilesDone: the row is not deleted.
deleteRepoFilesDoneKeepRow(f, w) == [f |-> Returned(f, NoRepo), w |-> w]
\* Line 406: the row goes last.
deleteRepoFilesDone(f, w) ==
  [f |-> Returned(f, NoRepo),
   w |-> [w EXCEPT !.store = deleteRepo(w.store, f.id)]]

\* A faulty deleteRepoFilesVerified: what the existence check answered is
\* not looked at.
deleteRepoFilesUnverified(x, r, isWt) ==
  IF ~r.ok THEN [x EXCEPT !.f = Thrown(@, "CommandFailed")]
  ELSE IF isWt THEN [x EXCEPT !.f.pc = "del_prune2"]
  ELSE deleteRepoFilesDone(x.f, x.w)
\* Lines 387-406 once the existence check r has run: the throw when the
\* directory is still there, else the final prune of a worktree, else the
\* deletion of the row.
deleteRepoFilesVerified(x, r, isWt) ==
  IF ~r.ok THEN [x EXCEPT !.f = Thrown(@, "CommandFailed")]
  ELSE IF r.out = "exists" THEN [x EXCEPT !.f = Thrown(@, "VerificationFailed")]
  ELSE IF isWt THEN [x EXCEPT !.f.pc = "del_prune2"]
  ELSE deleteRepoFilesDone(x.f, x.w)

\* A faulty removalGivenUp: the last forced removal failing ends the call.
removalGivenUpThrows(x, r) ==
  IF r.ok THEN [x EXCEPT !.f.pc = "del_rm"]
  ELSE [x EXCEPT !.f = Thrown(@, "CommandFailed")]
\* Lines 373-378 once the forced removal after the prune has answered r:
\* whatever it says, the directory is removed next.
removalGivenUp(x, r) == [x EXCEPT !.f.pc = "del_rm"]

\* A faulty prunedAfterwards: a failed prune ends the call, the row is kept.
prunedAfterwardsThrows(x, r) ==
  IF r.ok THEN deleteRepoFilesDone(x.f, x.w)
  ELSE [x EXCEPT !.f = Thrown(@, "CommandFailed")]
\* Lines 398-406 once the prune that follows the existence check has
\* answered r: a failure is logged, the row is deleted either way.
prunedAfterwards(x, r) == deleteRepoFilesDone(x.f, x.w)

deleteRepoFilesStep(f, w, fault) ==
  LET dirName == LastSegment(f.repo.localPath)
      base == extractRepoName(f.repo.repoUrl)
      isWt == f.repo.isWorktree /\ f.repo.branch # NoBranch
  IN CASE f.pc = "del_wt" ->
            LET r == executeCommand(fault, w.fs, WorktreeRemove(w.fs, base, dirName))
                x == Ran(f, w, r, "worktree remove")
            IN IF r.ok THEN [x EXCEPT !.f.pc = "del_rm"]
               ELSE [x EXCEPT !.f.pc = "del_wtforce"]
       [] f.pc = "del_wtforce" ->
            LET r == executeCommand(fault, w.fs, WorktreeRemove(w.fs, base, dirName))
                x == Ran(f, w, r, "worktree remove --force")
            IN IF r.ok THEN [x EXCEPT !.f.pc = "del_rm"]
               ELSE [x EXCEPT !.f.pc = "del_prune"]
       [] f.pc = "del_prune" ->
            LET r == executeCommand(fault, w.fs, WorktreePrune(w.fs, base))
                x == Ran(f, w, r, "worktree prune")
            IN IF r.ok THEN [x EXCEPT !.f.pc = "del_wtforce2"]
               ELSE [x EXCEPT !.f.pc = "del_rm"]
       [] f.pc = "del_wtforce2" ->
            LET r == executeCommand(fault, w.fs, WorktreeRemove(w.fs, base, dirName))
                x == Ran(f, w, r, "worktree remove --force")
            IN removalGivenUp(x, r)
       [] f.pc = "del_rm" ->
            LET r == executeCommand(fault, w.fs, RmRf(w.fs, dirName))
                x == Ran(f, w, r, "rm -rf")
            IN IF r.ok THEN [x EXCEPT !.f.pc = "del_check"]
               ELSE [x EXCEPT !.f = Thrown(@, "CommandFailed")]
       [] f.pc = "del_check" ->
            LET r == executeCommand(fault, w.fs, TestDir(w.fs, dirName))
                x == Ran(f, w, r, "test -d")
            IN deleteRepoFilesVerified(x, r, isWt)
       [] f.pc = "del_prune2" ->
            LET r == executeCommand(fault, w.fs, WorktreePrune(w.fs, base))
                x == Ran(f, w, r, "worktree prune")
            IN prunedAfterwards(x, r)

(***************************************************************************)
(* The DELETE /:id route: the lookup, the 404 answer, and else the call of *)
(* deleteRepoFiles, which withTransactionAsync is taken to run as it is;   *)
(* the route's answer then follows from how that call ends.                *)
(***************************************************************************)
\* A faulty deleteRoute: no lookup before the call.
deleteRouteNoLookup(f, w, id) == deleteRepoFilesCall(NewFrame("deleteRepoFiles"), w, id)
deleteRoute(f, w, id) ==
  IF getRepoById(w.store, id).id = 0
  THEN [f |-> Thrown([f EXCEPT !.id = id], "404"), w |-> w]
  ELSE deleteRepoFilesCall(NewFrame("deleteRepoFiles"), w, id)

(***************************************************************************)
(* switchBranch.                                                           *)
(***************************************************************************)
switchBranchCall(f, w, repoId, branch) ==
  LET repo == getRepoById(w.store, repoId)
      f1 == [f EXCEPT !.id = repoId, !.repo = repo, !.branch = branch]
  IN IF repo.id = 0 THEN [f |-> Thrown(f1, "NotFound"), w |-> w]
     ELSE [f |-> Goto(f1, "sw_fetch"), w |-> w]

\* A faulty switchBranchCheckout: the remote ref is preferred.
switchBranchCheckoutRemoteFirst(fs, d, branch, localEx, remoteEx) ==
  IF remoteEx THEN [r |-> CheckoutNew(fs, d, branch, TRUE), tag |-> "checkout -b origin"]
  ELSE IF localEx THEN [r |-> Checkout(fs, d, branch), tag |-> "checkout"]
  ELSE [r |-> CheckoutNew(fs, d, branch, FALSE), tag |-> "checkout -b"]
\* Lines 300-309.
switchBranchCheckout(fs, d, branch, localEx, remoteEx) ==
  IF localEx THEN [r |-> Checkout(fs, d, branch), tag |-> "checkout"]
  ELSE IF remoteEx THEN [r |-> CheckoutNew(fs, d, branch, TRUE), tag |-> "checkout -b origin"]
  ELSE [r |-> CheckoutNew(fs, d, branch, FALSE), tag |-> "checkout -b"]

\* A faulty switchBranchDone: the row is told the branch that was checked out.
switchBranchDoneUpdatesRow(x) ==
  [x EXCEPT !.f = Returned(@, NoRepo),
            !.w.store = {IF r.id = x.f.id THEN [r EXCEPT !.branch = x.f.branch] ELSE r : r \in @}]
\* Lines 311-312: the checkout succeeded; the call returns and the store is
\* not written to.
switchBranchDone(x) == [x EXCEPT !.f = Returned(@, NoRepo)]

switchBranchStep(f, w, fault) ==
  LET d == f.repo.localPath
  IN CASE f.pc = "sw_fetch" ->
            LET r == executeCommand(fault, w.fs, Fetch(w.fs, d))
                x == Ran(f, w, r, "fetch")
            IN IF r.ok THEN [x EXCEPT !.f.pc = "sw_local"]
               ELSE [x EXCEPT !.f = Thrown(@, "CommandFailed")]
       [] f.pc = "sw_local" ->
            LET r == executeCommand(fault, w.fs, VerifyLocal(w.fs, d, f.branch))
                x == Ran(f, w, r, "verify local")
            IN [x EXCEPT !.f.pc = "sw_remote", !.f.localEx = r.ok]
       [] f.pc = "sw_remote" ->
            LET r == executeCommand(fault, w.fs, VerifyRemote(w.fs, d, f.branch))
                x == Ran(f, w, r, "verify remote")
            IN [x EXCEPT !.f.pc = "sw_co", !.f.remoteEx = r.ok]
       [] f.pc = "sw_co" ->
            LET c == switchBranchCheckout(w.fs, d, f.branch, f.localEx, f.remoteEx)
                r == executeCommand(fault, w.fs, c.r)
                x == Ran(f, w, r, c.tag)
            IN IF r.ok THEN switchBranchDone(x)
               ELSE [x EXCEPT !.f = Thrown(@, "CommandFailed")]

(***************************************************************************)
(* pullRepo.                                                               *)
(***************************************************************************)
pullRepoCall(f, w, repoId) ==
  LET repo == getRepoById(w.store, repoId)
      f1 == [f EXCEPT !.id = repoId, !.repo = repo]
  IN IF repo.id = 0 THEN [f |-> Thrown(f1, "NotFound"), w |-> w]
     ELSE [f |-> Goto(f1, "pull"), w |-> w]

\* A faulty pullRepoStep: lastPulled is written before the pull is run.
pullRepoStepUpdateFirst(f, w, fault, now) ==
  LET r == executeCommand(fault, w.fs, Pull(w.fs, f.repo.localPath))
      x == Ran(f, [w EXCEPT !.store = updateLastPulled(w.store, f.id, now)], r, "pull")
  IN IF r.ok THEN [x EXCEPT !.f = Returned(@, NoRepo)]
     ELSE [x EXCEPT !.f = Thrown(@, "CommandFailed")]
\* Lines 324-333: the pull, then the timestamp, or the rethrow.
pullRepoStep(f, w, fault, now) ==
  LET r == executeCommand(fault, w.fs, Pull(w.fs, f.repo.localPath))
      x == Ran(f, w, r, "pull")
  IN IF r.ok
     THEN [f |-> Returned(x.f, NoRepo),
           w |-> [x.w EXCEPT !.store = updateLastPulled(x.w.store, f.id, now)]]
     ELSE [x EXCEPT !.f = Thrown(@, "CommandFailed")]

(***************************************************************************)
(* getCurrentBranch, for a workspace the caller has read from the store.   *)
(***************************************************************************)
getCurrentBranchCall(f, w, repo) ==
  [f |-> Goto([f EXCEPT !.id = repo.id, !.repo = repo], "head"), w |-> w]

\* A faulty getCurrentBranchStep: the command's failure is rethrown.
getCurrentBranchStepRethrow(f, w, fault) ==
  LET r == executeCommand(fault, w.fs, RevParseHead(w.fs, f.repo.localPath))
      x == Ran(f, w, r, "rev-parse HEAD")
  IN IF r.ok THEN [x EXCEPT !.f = Returned([@ EXCEPT !.current = BranchResult(r.out)], NoRepo)]
     ELSE [x EXCEPT !.f = Thrown(@, "CommandFailed")]
\* Lines 232-239: the branch HEAD names, or null when the command failed.
getCurrentBranchStep(f, w, fault) ==
  LET r == executeCommand(fault, w.fs, RevParseHead(w.fs, f.repo.localPath))
      x == Ran(f, w, r, "rev-parse HEAD")
  IN IF r.ok THEN [x EXCEPT !.f = Returned([@ EXCEPT !.current = BranchResult(r.out)], NoRepo)]
     ELSE [x EXCEPT !.f = Returned([@ EXCEPT !.current = NullBranch], NoRepo)]

(***************************************************************************)
(* cleanupOrphanedDirectories (reconcile).                                 *)
(***************************************************************************)
cleanupOrphanedDirectoriesCall(f, w) == [f |-> Goto(f, "ls"), w |-> w]

\* A faulty orphanedDirs: the filter is inverted.
orphanedDirsTracked(directories, store) ==
  LET trackedPaths == {LastSegment(r.localPath) : r \in listRepos(store)}
  IN {dir \in directories : dir \in trackedPaths}
\* Lines 424-436: the listing, the tracked names, the orphans.
orphanedDirs(directories, store) ==
  LET trackedPaths == {LastSegment(r.localPath) : r \in listRepos(store)}
  IN {dir \in directories : dir \notin trackedPaths}

\* A faulty orphanRemoved: a removal that failed ends the call with its error.
orphanRemovedRethrows(x, r, rest) ==
  IF ~r.ok THEN [x EXCEPT !.f = Thrown(@, "CommandFailed")]
  ELSE IF rest = {} THEN [x EXCEPT !.f = Returned([@ EXCEPT !.todo = rest], NoRepo)]
  ELSE [x EXCEPT !.f.todo = rest]
\* Lines 439-446: whether the removal failed or not, the loop goes on to the
\* next orphan, and the call returns after the last.
orphanRemoved(x, r, rest) ==
  IF rest = {} THEN [x EXCEPT !.f = Returned([@ EXCEPT !.todo = rest], NoRepo)]
  ELSE [x EXCEPT !.f.todo = rest]

\* dir is the orphan the loop of lines 439-446 is at.
cleanupOrphanedDirectoriesStep(f, w, fault, dir) ==
  CASE f.pc = "ls" ->
         LET r == executeCommand(fault, w.fs, Ls(w.fs))
             x == Ran(f, w, r, "ls")
             directories == IF r.ok THEN r.out ELSE {}
             orphans == orphanedDirs(directories, w.store)
         IN IF orphans = {} THEN [x EXCEPT !.f = Returned(@, NoRepo)]
            ELSE [x EXCEPT !.f.pc = "orph_rm", !.f.todo = orphans]
    [] f.pc = "orph_rm" ->
         LET r == executeCommand(fault, w.fs, RmRf(w.fs, dir))
             x == Ran(f, w, r, "rm -rf")
             rest == f.todo \ {dir}
         IN orphanRemoved(x, r, rest)

(***************************************************************************)
(* usePermissionRequests (the permission request queue of the frontend).   *)
(* A Permission is its id and n, which stands for the rest of the object:  *)
(* the number of the event that carried it.  NoPermission is null or       *)
(* undefined; the string "" is a permissionID that is absent or empty.     *)
(***************************************************************************)
PermissionIds == {"p1", "p2", "p3"}
NoPermission == [id |-> "", n |-> 0]

\* A faulty addPermission: a permission whose id is pending is added again.
addPermissionAgain(prev, permission) == Append(prev, permission)
\* Lines 34-38: the updater of an add event.
addPermission(prev, permission) ==
  LET exists == \E i \in 1..Len(prev) : prev[i].id = permission.id
  IN IF exists THEN prev ELSE Append(prev, permission)

\* Lines 31-42: the listener, as an updater of the state.
onPermissionEvent(prev, event) ==
  IF event.type = "add" /\ event.permission # NoPermission
  THEN addPermission(prev, event.permission)
  ELSE IF event.type = "remove" /\ event.permissionID # ""
  THEN SelectSeq(prev, LAMBDA q : q.id # event.permissionID)
  ELSE prev

\* Lines 49-51.
dismissPermission(prev, permissionID) ==
  SelectSeq(prev, LAMBDA q : q.id # permissionID)
\* Lines 53-55.
clearAllPermissions(prev) == <<>>

\* Line 47: permissions[0] || null.
currentPermission(list) == IF Len(list) = 0 THEN NoPermission ELSE list[1]
\* Line 59: permissions.length.
pendingCount(list) == Len(list)

(***************************************************************************)
(* Process startup (index.ts).  The position of the module's top level:    *)
(* pc names the awaited call it is at, "routes" the registration of the    *)
(* routes after the try block, "serving" the time after serve(); cleanups  *)
(* counts the calls of cleanupOrphanedDirectories, logged is the step      *)
(* whose failure the catch of the try block logged.                        *)
(***************************************************************************)
Serving == [pc |-> "serving", cleanups |-> 1, logged |-> ""]

\* Lines 49-51: the failure is logged, and the top level goes on.
startupCatch(s, step) == [s EXCEPT !.pc = "routes", !.logged = step]

\* Lines 39-41: the three ensureDirectoryExists calls.
startupDirectories(s, fault) ==
  IF fault THEN startupCatch(s, "directories")
  ELSE [s EXCEPT !.pc = CASE s.pc = "workspace" -> "repos"
                         [] s.pc = "repos" -> "config"
                         [] s.pc = "config" -> "cleanup"]

\* A faulty startupCleanupCalled: the call is not awaited.
startupCleanupNotAwaited(s) == [s EXCEPT !.pc = "opencode", !.cleanups = @ + 1]
\* Line 44: cleanupOrphanedDirectories is called and awaited.
startupCleanupCalled(s) == [s EXCEPT !.pc = "cleanup_wait", !.cleanups = @ + 1]

\* Lines 44-45: the awaited call has settled.
startupCleanupSettled(s, ok) ==
  IF ok THEN [s EXCEPT !.pc = "opencode"] ELSE startupCatch(s, "cleanup")

\* Lines 47-48: opencodeServerManager.start().
startupOpenCode(s, fault) ==
  IF fault THEN startupCatch(s, "opencode") ELSE [s EXCEPT !.pc = "routes"]

\* Lines 53-57 and 138-142: the routes are registered and serve() is called.
serve(s) == [s EXCEPT !.pc = "serving"]

(***************************************************************************)
(* State: the call frame of each request slot, the record store, the id    *)
(* the store gives next, the workspaces root, the number of calls made,    *)
(* the number of commands that failed for reasons outside the file system, *)
(* and the clock: the number of readings of Date.now() that were recorded  *)
(* in the store, the next reading being later than all of them.            *)
(* remoteHead, declared with the remotes, never changes.  startup is the   *)
(* position of the process startup; requests are served after it.          *)
(* permissions is the state of the usePermissionRequests hook.             *)
(***************************************************************************)
VARIABLES frames, store, nextId, fs, calls, faults, clock, startup, permissions

vars == <<frames, store, nextId, fs, calls, faults, clock, remoteHead, startup,
          permissions>>

Procs == {1, 2}

World == [store |-> store, nextId |-> nextId, fs |-> fs]

\* Directories left in the workspaces root by earlier runs or by hand.
InitialFs ==
  {g \in [DirNames -> {AbsentDir, JunkDir}] :
     Cardinality({d \in DirNames : g[d] = JunkDir}) <= MaxLeftover}

Init ==
  /\ frames = [p \in Procs |-> IdleFrame]
  /\ store = {}
  /\ nextId = 1
  /\ fs \in InitialFs
  /\ calls = 0
  /\ clock = 0
  /\ faults = 0
  /\ remoteHead \in RemoteHeads
  /\ startup = Serving
  /\ permissions = <<>>

Apply(p, x) ==
  /\ frames' = [frames EXCEPT ![p] = x.f]
  /\ store' = x.w.store
  /\ nextId' = x.w.nextId
  /\ fs' = x.w.fs
  /\ UNCHANGED <<remoteHead, startup, permissions>>

CanCall(p, budget) == frames[p].op = "idle" /\ calls < budget
Called == calls' = calls + 1 /\ UNCHANGED <<faults, clock>>
Running(p, op) == frames[p].op = op /\ frames[p].pc # "ret"
Faulted(fault) ==
  /\ fault => faults < MaxFaults
  /\ faults' = IF fault THEN faults + 1 ELSE faults
  /\ UNCHANGED calls

\* Date.now(), and the clock after a step that recorded what it read.
Now == clock + 1
Ticked(recorded) == clock' = IF recorded THEN Now ELSE clock

\* The messages an outside failure of the command at pc can come with.
FailureMessages(pc, fault) ==
  IF fault /\ pc = "clone" THEN CloneFailures ELSE {"command failed"}

Provision(p, urls, budget) ==
  /\ CanCall(p, budget)
  /\ \E url \in urls, branch \in BranchArgs, useWorktree \in BOOLEAN :
       Apply(p, cloneRepoCall(NewFrame("cloneRepo"), World, url, branch, useWorktree))
  /\ Called

ProvisionStep(p) ==
  /\ Running(p, "cloneRepo")
  /\ \E fault \in BOOLEAN : \E msg \in FailureMessages(frames[p].pc, fault) :
       /\ Faulted(fault)
       /\ Apply(p, IF frames[p].pc = "testBase"
                   THEN cloneRepoInsert(frames[p], World, fault, Now)
                   ELSE cloneRepoStep(frames[p], World, fault, msg))
       /\ Ticked(nextId' # nextId)

Deprovision(p, budget) ==
  /\ CanCall(p, budget)
  /\ \E id \in 1..nextId :
       Apply(p, deleteRepoFilesCall(NewFrame("deleteRepoFiles"), World, id))
  /\ Called

DeprovisionStep(p) ==
  /\ Running(p, "deleteRepoFiles")
  /\ \E fault \in BOOLEAN :
       /\ Faulted(fault)
       /\ Apply(p, deleteRepoFilesStep(frames[p], World, fault))
       /\ Ticked(FALSE)

SwitchBranch(p, budget) ==
  /\ CanCall(p, budget)
  /\ \E id \in 1..nextId, branch \in BranchNames :
       Apply(p, switchBranchCall(NewFrame("switchBranch"), World, id, branch))
  /\ Called

SwitchBranchStep(p) ==
  /\ Running(p, "switchBranch")
  /\ \E fault \in BOOLEAN :
       /\ Faulted(fault)
       /\ Apply(p, switchBranchStep(frames[p], World, fault))
       /\ Ticked(FALSE)

PullCall(p, budget) ==
  /\ CanCall(p, budget)
  /\ \E id \in 1..nextId :
       Apply(p, pullRepoCall(NewFrame("pullRepo"), World, id))
  /\ Called

PullStep(p) ==
  /\ Running(p, "pullRepo")
  /\ \E fault \in BOOLEAN :
       /\ Faulted(fault)
       /\ Apply(p, pullRepoStep(frames[p], World, fault, Now))
       /\ Ticked(frames'[p].ok)

GetCurrentBranch(p, budget) ==
  /\ CanCall(p, budget)
  /\ \E repo \in store :
       Apply(p, getCurrentBranchCall(NewFrame("getCurrentBranch"), World, repo))
  /\ Called

GetCurrentBranchStep(p) ==
  /\ Running(p, "getCurrentBranch")
  /\ \E fault \in BOOLEAN :
       /\ Faulted(fault)
       /\ Apply(p, getCurrentBranchStep(frames[p], World, fault))
       /\ Ticked(FALSE)

DeleteRequest(p, budget) ==
  /\ CanCall(p, budget)
  /\ \E id \in 1..nextId :
       Apply(p, deleteRoute(NewFrame("deleteRoute"), World, id))
  /\ Called

Reconcile(p, budget) ==
  /\ CanCall(p, budget)
  /\ Apply(p, cleanupOrphanedDirectoriesCall(NewFrame("cleanupOrphanedDirectories"), World))
  /\ Called

ReconcileStep(p) ==
  /\ Running(p, "cleanupOrphanedDirectories")
  /\ \E fault \in BOOLEAN,
        dir \in (IF frames[p].pc = "orph_rm" THEN frames[p].todo ELSE {<<>>}) :
       /\ Faulted(fault)
       /\ Apply(p, cleanupOrphanedDirectoriesStep(frames[p], World, fault, dir))
       /\ Ticked(FALSE)

\* The caller takes the result; the slot is free for the next request.
Return(p) ==
  /\ frames[p].pc = "ret"
  /\ frames' = [frames EXCEPT ![p] = IdleFrame]
  /\ UNCHANGED <<store, nextId, fs, calls, faults, clock, remoteHead, startup,
                 permissions>>

Request(p, urls, budget) ==
  \/ Provision(p, urls, budget)
  \/ ProvisionStep(p)
  \/ Deprovision(p, budget)
  \/ DeprovisionStep(p)
  \/ SwitchBranch(p, budget)
  \/ SwitchBranchStep(p)
  \/ PullCall(p, budget)
  \/ PullStep(p)
  \/ GetCurrentBranch(p, budget)
  \/ GetCurrentBranchStep(p)
  \/ DeleteRequest(p, budget)
  \/ Reconcile(p, budget)
  \/ ReconcileStep(p)
  \/ Return(p)

(***************************************************************************)
(* Spec: requests for one repository, served one at a time, as a caller    *)
(* that serializes them sees the engine.                                   *)
(***************************************************************************)
Next == Request(1, {UrlA}, MaxCalls)

Spec == Init /\ [][Next]_vars

(***************************************************************************)
(* SpecConc: two requests may be in progress at once, their awaited        *)
(* commands interleaved; the workspaces root starts empty and commands     *)
(* fail only for what the file system holds.                               *)
(***************************************************************************)
InitConc ==
  /\ frames = [p \in Procs |-> IdleFrame]
  /\ store = {}
  /\ nextId = 1
  /\ fs = [d \in DirNames |-> AbsentDir]
  /\ calls = 0
  /\ clock = 0
  /\ faults = MaxFaults
  /\ remoteHead \in RemoteHeads
  /\ startup = Serving
  /\ permissions = <<>>

NextConc == \E p \in Procs : Request(p, {UrlA}, MaxConcCalls)

SpecConc == InitConc /\ [][NextConc]_vars

(***************************************************************************)
(* SpecWorktree: provision requests for one repository, served one at a    *)
(* time, in which git worktree add and the commands of the stale-worktree  *)
(* cleanup may fail for outside reasons any number of times.               *)
(***************************************************************************)
WorktreeCommands == {"ws_add", "cs_list", "cs_remove", "cs_prune"}

ProvisionStepAnyOutcome(p) ==
  /\ Running(p, "cloneRepo")
  /\ \E fault \in BOOLEAN : \E msg \in FailureMessages(frames[p].pc, fault) :
       /\ fault => frames[p].pc \in WorktreeCommands
       /\ faults' = IF fault THEN faults + 1 ELSE faults
       /\ UNCHANGED calls
       /\ Apply(p, IF frames[p].pc = "testBase"
                   THEN cloneRepoInsert(frames[p], World, fault, Now)
                   ELSE cloneRepoStep(frames[p], World, fault, msg))
       /\ Ticked(nextId' # nextId)

NextWorktree ==
  \/ Provision(1, {UrlA}, MaxWtCalls)
  \/ ProvisionStepAnyOutcome(1)
  \/ Return(1)

SpecWorktree == Init /\ [][NextWorktree]_vars

(***************************************************************************)
(* SpecTeardown: provision and deprovision requests for one repository,    *)
(* served one at a time, in which the git worktree commands of             *)
(* deprovision may fail for outside reasons any number of times.           *)
(***************************************************************************)
TeardownCommands == {"del_wt", "del_wtforce", "del_prune", "del_wtforce2", "del_prune2"}

DeprovisionStepAnyOutcome(p) ==
  /\ Running(p, "deleteRepoFiles")
  /\ \E fault \in BOOLEAN :
       /\ fault => frames[p].pc \in TeardownCommands
       /\ faults' = IF fault THEN faults + 1 ELSE faults
       /\ UNCHANGED calls
       /\ Apply(p, deleteRepoFilesStep(frames[p], World, fault))
       /\ Ticked(FALSE)

NextTeardown ==
  \/ Provision(1, {UrlA}, MaxTdCalls)
  \/ ProvisionStepAnyOutcome(1)
  \/ Deprovision(1, MaxTdCalls)
  \/ DeprovisionStepAnyOutcome(1)
  \/ Return(1)

SpecTeardown == Init /\ [][NextTeardown]_vars

(***************************************************************************)
(* SpecUrls: provision requests for two repositories of one short name,    *)
(* served one at a time; the workspaces root starts empty and commands     *)
(* fail only for what the file system holds.                               *)
(***************************************************************************)
NextUrls ==
  \/ Provision(1, AllURLs, MaxUrlCalls)
  \/ ProvisionStep(1)
  \/ Return(1)

SpecUrls == InitConc /\ [][NextUrls]_vars

(***************************************************************************)
(* SpecReconcile: a provision request and reconcile in progress at once,   *)
(* over a workspaces root that starts with entries no row references; the  *)
(* commands of reconcile may fail for outside reasons any number of times. *)
(***************************************************************************)
InitialOrphans ==
  {g \in [DirNames -> {AbsentDir, JunkDir}] :
     Cardinality({d \in DirNames : g[d] = JunkDir}) <= MaxOrphans}

InitReconcile ==
  /\ frames = [p \in Procs |-> IdleFrame]
  /\ store = {}
  /\ nextId = 1
  /\ fs \in InitialOrphans
  /\ calls = 0
  /\ clock = 0
  /\ faults = 0
  /\ remoteHead \in RemoteHeads
  /\ startup = Serving
  /\ permissions = <<>>

ReconcileStepAnyOutcome(p) ==
  /\ Running(p, "cleanupOrphanedDirectories")
  /\ \E fault \in BOOLEAN,
        dir \in (IF frames[p].pc = "orph_rm" THEN frames[p].todo ELSE {<<>>}) :
       /\ faults' = IF fault THEN faults + 1 ELSE faults
       /\ UNCHANGED calls
       /\ Apply(p, cleanupOrphanedDirectoriesStep(frames[p], World, fault, dir))
       /\ Ticked(FALSE)

NextReconcile ==
  \/ Provision(1, {UrlA}, MaxRcCalls)
  \/ ProvisionStep(1)
  \/ Reconcile(2, MaxRcCalls)
  \/ ReconcileStepAnyOutcome(2)
  \/ \E p \in Procs : Return(p)

SpecReconcile == InitReconcile /\ [][NextReconcile]_vars

(***************************************************************************)
(* SpecStartup: the process starts over a workspaces root with entries no  *)
(* row references; each awaited call of the startup and each command of    *)
(* its reconcile may fail.  Slot 1 holds the startup's reconcile call,     *)
(* slot 2 the requests, which are served once serve() has been called.     *)
(* The top level of the module runs on as long as it has a step to take.   *)
(***************************************************************************)
InitStartup ==
  /\ frames = [p \in Procs |-> IdleFrame]
  /\ store = {}
  /\ nextId = 1
  /\ fs \in InitialOrphans
  /\ calls = 0
  /\ clock = 0
  /\ faults = 0
  /\ remoteHead \in RemoteHeads
  /\ startup = [pc |-> "workspace", cleanups |-> 0, logged |-> ""]
  /\ permissions = <<>>

StartupDirectories ==
  /\ startup.pc \in {"workspace", "repos", "config"}
  /\ \E fault \in BOOLEAN :
       /\ startup' = startupDirectories(startup, fault)
       /\ faults' = IF fault THEN faults + 1 ELSE faults
  /\ UNCHANGED <<frames, store, nextId, fs, calls, clock, remoteHead, permissions>>

StartupCleanup ==
  /\ startup.pc = "cleanup"
  /\ frames[1].op = "idle"
  /\ frames' = [frames EXCEPT
                  ![1] = cleanupOrphanedDirectoriesCall(
                           NewFrame("cleanupOrphanedDirectories"), World).f]
  /\ startup' = startupCleanupCalled(startup)
  /\ UNCHANGED <<store, nextId, fs, calls, faults, clock, remoteHead, permissions>>

StartupCleanupSettled ==
  /\ startup.pc = "cleanup_wait"
  /\ frames[1].op = "cleanupOrphanedDirectories" /\ frames[1].pc = "ret"
  /\ frames' = [frames EXCEPT ![1] = IdleFrame]
  /\ startup' = startupCleanupSettled(startup, frames[1].ok)
  /\ UNCHANGED <<store, nextId, fs, calls, faults, clock, remoteHead, permissions>>

StartupOpenCode ==
  /\ startup.pc = "opencode"
  /\ \E fault \in BOOLEAN :
       /\ startup' = startupOpenCode(startup, fault)
       /\ faults' = IF fault THEN faults + 1 ELSE faults
  /\ UNCHANGED <<frames, store, nextId, fs, calls, clock, remoteHead, permissions>>

Serve ==
  /\ startup.pc = "routes"
  /\ startup' = serve(startup)
  /\ UNCHANGED <<frames, store, nextId, fs, calls, faults, clock, remoteHead,
                 permissions>>

Startup ==
  \/ StartupDirectories
  \/ StartupCleanup
  \/ ReconcileStepAnyOutcome(1)
  \/ StartupCleanupSettled
  \/ StartupOpenCode
  \/ Serve

NextStartup ==
  \/ Startup
  \/ /\ startup.pc = "serving"
     /\ \/ Provision(2, {UrlA}, MaxStCalls)
        \/ ProvisionStep(2)
        \/ Deprovision(2, MaxStCalls)
        \/ DeprovisionStep(2)
        \/ Return(2)

SpecStartup == InitStartup /\ [][NextStartup]_vars /\ WF_vars(Startup)

(***************************************************************************)
(* SpecPermissions: one mounted usePermissionRequests hook; events are     *)
(* emitted to its listener, and its dismiss and clear callbacks are        *)
(* called, in any order.  calls counts the events emitted.                 *)
(***************************************************************************)
PermissionEvents ==
  [type : {"add", "remove"},
   permission : {[id |-> i, n |-> calls + 1] : i \in PermissionIds} \cup {NoPermission},
   permissionID : PermissionIds \cup {""}]

Emit ==
  /\ calls < MaxEvents
  /\ \E event \in PermissionEvents :
       permissions' = onPermissionEvent(permissions, event)
  /\ calls' = calls + 1
  /\ UNCHANGED <<frames, store, nextId, fs, faults, clock, remoteHead, startup>>

Dismiss ==
  /\ \E permissionID \in PermissionIds \cup {""} :
       permissions' = dismissPermission(permissions, permissionID)
  /\ UNCHANGED <<frames, store, nextId, fs, calls, faults, clock, remoteHead, startup>>

ClearAll ==
  /\ permissions' = clearAllPermissions(permissions)
  /\ UNCHANGED <<frames, store, nextId, fs, calls, faults, clock, remoteHead, startup>>

NextPermissions == Emit \/ Dismiss \/ ClearAll

SpecPermissions == InitConc /\ [][NextPermissions]_vars

(***************************************************************************)
(* Properties.                                                             *)
(***************************************************************************)
HasRow(st, url, branch) == \E r \in st : r.repoUrl = url /\ r.branch = branch
ReturnedOk(p, op) == frames[p].op = op /\ frames[p].pc = "ret" /\ frames[p].ok
ReturnedErr(p, op) == frames[p].op = op /\ frames[p].pc = "ret" /\ ~frames[p].ok

\* C1: a provision call for a (repositoryUrl, branch) that has a row returns
\* at once with a row of the store for that pair, having run no command and
\* left the record store and the file system as they were.
C1_Idempotent ==
  [][\A p \in Procs :
       (frames[p].op = "idle" /\ frames'[p].op = "cloneRepo"
          /\ HasRow(store, frames'[p].url, frames'[p].branch))
       => /\ frames'[p].pc = "ret" /\ frames'[p].ok
          /\ frames'[p].ret \in store
          /\ frames'[p].ret.repoUrl = frames'[p].url
          /\ frames'[p].ret.branch = frames'[p].branch
          /\ frames'[p].last = ""
          /\ UNCHANGED <<store, nextId, fs>>]_vars

\* A second provision for a ready workspace has returned its row.
C1_Witness ==
  /\ ReturnedOk(1, "cloneRepo")
  /\ frames[1].repo.id = 0
  /\ frames[1].ret.cloneStatus = "ready"
  /\ frames[1].ret \in store

\* C2: when a provision call has returned a workspace, the directory named
\* by its localPath exists and is a valid git repository.
C2_DirectoryAfterProvision ==
  ReturnedOk(1, "cloneRepo")
    => /\ Exists(fs, frames[1].ret.localPath)
       /\ IsValidRepo(fs, frames[1].ret.localPath)

C4_FailureCompensation ==
  (ReturnedErr(1, "cloneRepo") /\ frames[1].repo.id # 0)
    => /\ frames[1].err # ""
       /\ ~HasRow(store, frames[1].url, frames[1].branch)

\* A provision on the worktree path has failed at git worktree add, after
\* its row was inserted.
C4_Witness ==
  /\ ReturnedErr(1, "cloneRepo")
  /\ frames[1].repo.id # 0
  /\ frames[1].shouldWt
  /\ frames[1].last = "worktree add"

\* A successful provision that took the worktree path and found the base
\* clone checked out on the requested branch (defb is set exactly when
\* rev-parse HEAD answered that branch, lines 547-552).
SwitchedAway(p) ==
  ReturnedOk(p, "cloneRepo") /\ frames[p].shouldWt /\ frames[p].defb # NoBranch

\* C5 (as stated): on success of a worktree provision for B that found the
\* base clone on B, the base clone is on its default branch (origin/HEAD, or
\* main if that lookup failed) and the worktree directory is on B.
C5_BaseOnDefault ==
  SwitchedAway(1)
    => /\ HeadOf(fs, BaseOf(frames[1])) = frames[1].defb
       /\ HeadOf(fs, TargetOf(frames[1])) = frames[1].branch

\* C5 (amended): on such a success the worktree directory is on B and the
\* base clone is on another branch: its default branch (origin/HEAD, or main
\* if that lookup failed), or main when the checkout of the default branch
\* failed; it is the default branch whenever no command has failed.
C5_WorktreeExclusivity ==
  SwitchedAway(1)
    => /\ HeadOf(fs, TargetOf(frames[1])) = frames[1].branch
       /\ HeadOf(fs, BaseOf(frames[1])) # frames[1].branch
       /\ HeadOf(fs, BaseOf(frames[1])) \in {frames[1].defb, Main}
       /\ faults = 0 => HeadOf(fs, BaseOf(frames[1])) = frames[1].defb

\* The base clone sat on a branch other than the remote's default one, was
\* switched to the default branch, and the worktree is on the branch.
C5_Witness ==
  /\ SwitchedAway(1)
  /\ frames[1].branch # remoteHead
  /\ remoteHead # Main
  /\ HeadOf(fs, BaseOf(frames[1])) = remoteHead
  /\ HeadOf(fs, TargetOf(frames[1])) = frames[1].branch

\* C6: when a deprovision call has returned successfully, the store holds no
\* row with the call's id and the directory named by the row's localPath
\* does not exist, for a worktree and for a full clone, whatever the
\* git-level worktree removal commands answered.
C6_DeletionComplete ==
  ReturnedOk(1, "deleteRepoFiles")
    => /\ getRepoById(store, frames[1].id).id = 0
       /\ ~Exists(fs, frames[1].repo.localPath)

\* A worktree workspace was deprovisioned although one of the call's
\* commands had failed.
C6_Witness ==
  /\ ReturnedOk(1, "deleteRepoFiles")
  /\ frames[1].repo.isWorktree
  /\ frames[1].failed
  /\ ~Exists(fs, frames[1].repo.localPath)

Tracked(d) == \E r \in store : LastSegment(r.localPath) = d
ReconcileDone == ReturnedOk(1, "cleanupOrphanedDirectories")
RemovalFailed == frames[1].failed /\ frames[1].last = "rm -rf"
\* No step of a reconcile call touches a directory that a row references.
ReconcileKeepsTracked ==
  \A d \in DirNames :
    (frames[1].op = "cleanupOrphanedDirectories" /\ Tracked(d)) => fs'[d] = fs[d]

\* C7 (as stated): a reconcile that runs alone and whose removal commands all
\* succeeded has removed every entry of the workspaces root that no row
\* references, and has touched no directory that a row references.
C7_ReconcileExact ==
  /\ [][ReconcileKeepsTracked]_vars
  /\ []((ReconcileDone /\ ~RemovalFailed)
          => \A d \in DirNames : Exists(fs, d) => Tracked(d))

\* C7 (amended): a reconcile that runs alone and none of whose commands
\* failed, the listing included, has removed every entry that ls lists (the
\* names not starting with a dot) and that no row references, and has
\* touched no directory that a row references.
C7_ReconcileListed ==
  /\ [][ReconcileKeepsTracked]_vars
  /\ []((ReconcileDone /\ ~frames[1].failed)
          => \A d \in DirNames : (Exists(fs, d) /\ ~IsHidden(d)) => Tracked(d))

\* Reconcile has removed the one untracked directory and left a workspace's
\* directory in place.
C7_Witness ==
  /\ ReconcileDone /\ ~frames[1].failed
  /\ frames[1].last = "rm -rf"
  /\ \E d \in DirNames : Tracked(d) /\ IsValidRepo(fs, d)
  /\ \A d \in DirNames : Exists(fs, d) => Tracked(d)

\* The checkout the tie-break prescribes for a pair of facts.
BranchChoice(localRef, remoteRef) ==
  IF localRef THEN "checkout"
  ELSE IF remoteRef THEN "checkout -b origin"
  ELSE "checkout -b"
\* The directory whose branch a call is about to switch.
SwitchedDir(f) == IF f.op = "switchBranch" THEN f.repo.localPath ELSE BaseOf(f)

\* C8: the checkout that switchBranch runs, and that provision runs in a
\* reused base clone, is the one the tie-break prescribes for whether the
\* local ref and the remote-tracking ref exist in the repository: the same
\* table for both, as long as no command has failed for an outside reason.
C8_BranchTieBreak ==
  [][\A p \in Procs :
       (frames[p].pc \in {"sw_co", "base_co"} /\ frames'[p] # frames[p] /\ faults' = 0)
       => frames'[p].last =
            BranchChoice(VerifyLocal(fs, SwitchedDir(frames[p]), frames[p].branch).ok,
                         VerifyRemote(fs, SwitchedDir(frames[p]), frames[p].branch).ok)]_vars

\* switchBranch found both refs and checked the local branch out as it was.
C8_Witness ==
  /\ ReturnedOk(1, "switchBranch")
  /\ faults = 0
  /\ frames[1].last = "checkout"
  /\ frames[1].branch \in RemoteBranches(frames[1].repo.repoUrl)
  /\ HeadOf(fs, frames[1].repo.localPath) = frames[1].branch

\* No request is in progress.
Quiescent == \A p \in Procs : frames[p].op = "idle"

\* C9: between operations, no two rows have the same localPath and every
\* ready row's directory exists.
C9_LocalPathOneToOne ==
  Quiescent
    => /\ \A r1 \in store : \A r2 \in store : r1.localPath = r2.localPath => r1 = r2
       /\ \A r \in store : r.cloneStatus = "ready" => Exists(fs, r.localPath)

\* C10: between operations, every row flagged isWorktree has a non-empty
\* branch, and the base directory named by its URL's repository name exists.
C10_WorktreeHasBase ==
  Quiescent
    => \A r \in store :
         r.isWorktree => /\ r.branch # NoBranch
                         /\ Exists(fs, extractRepoName(r.repoUrl))

\* A provision call is in progress.
ProvisionInProgress == \E p \in Procs : Running(p, "cloneRepo")
\* Every row the step adds to the store is in status cloning.
InsertedAsCloning ==
  \A r \in store' : (\A q \in store : q.id # r.id) => r.cloneStatus = "cloning"
\* A provision call that inserted a row and ends in this step leaves that
\* row ready, or leaves no row with that id.
EndsReadyOrDeleted ==
  \A p \in Procs :
    (Running(p, "cloneRepo") /\ frames[p].repo.id # 0 /\ frames'[p].pc = "ret")
      => \/ getRepoById(store', frames[p].repo.id).id = 0
         \/ getRepoById(store', frames[p].repo.id).cloneStatus = "ready"

\* C11: cloning is transient: whenever no provision call is in progress no
\* row is in status cloning; every row is inserted as cloning; and each
\* provision call that inserted a row ends with that row ready or deleted.
C11_CloningTransient ==
  /\ [](~ProvisionInProgress => \A r \in store : r.cloneStatus # "cloning")
  /\ [][InsertedAsCloning /\ EndsReadyOrDeleted]_vars

\* A provision that inserted its row has failed, its row is gone, and the
\* row of an earlier provision stands ready.
C11_Witness ==
  /\ ReturnedErr(1, "cloneRepo")
  /\ frames[1].repo.id # 0
  /\ getRepoById(store, frames[1].repo.id).id = 0
  /\ \E r \in store : r.cloneStatus = "ready"

\* C12: every workspace that a successful provision call returns has
\* cloneStatus ready, also when the call returned through the short-circuit
\* while another provision for the same pair was in progress.
C12_ReturnedReady ==
  \A p \in Procs : ReturnedOk(p, "cloneRepo") => frames[p].ret.cloneStatus = "ready"

\* The directory a deprovision call removes.
DeletedDir(f) == LastSegment(f.repo.localPath)
\* Slot p takes a step of a deprovision call.
DeprovisionActs(p) == Running(p, "deleteRepoFiles") /\ frames'[p] # frames[p]
\* The existence check is run right after the removal command, and the
\* call goes on past it only when it found the directory gone.
CheckedAfterRemoval(p) ==
  /\ frames[p].pc = "del_check" => frames[p].last = "rm -rf"
  /\ frames'[p].pc = "del_prune2"
       => frames[p].pc = "del_check" /\ ~Exists(fs, DeletedDir(frames[p]))
\* The row goes in the step of a check that found the directory gone, or
\* in the step of the prune that follows such a check.
RowDeletedLast(p) ==
  (getRepoById(store, frames[p].id).id # 0 /\ getRepoById(store', frames[p].id).id = 0)
    => \/ frames[p].pc = "del_check" /\ ~Exists(fs, DeletedDir(frames[p]))
       \/ frames[p].pc = "del_prune2"
\* A check that finds the directory still there ends the call with an error
\* and leaves the store as it was.
StillThereFails(p) ==
  (frames[p].pc = "del_check" /\ Exists(fs, DeletedDir(frames[p])))
    => /\ frames'[p].pc = "ret" /\ ~frames'[p].ok /\ frames'[p].err # ""
       /\ store' = store

\* C13: a deprovision call deletes the row only after it has issued the
\* directory removal and the existence check that follows has reported the
\* directory gone; when that check reports the directory still there, the
\* call fails with an error and the row is still in the store.
C13_DeleteRowLast ==
  [][\A p \in Procs :
       DeprovisionActs(p)
         => CheckedAfterRemoval(p) /\ RowDeletedLast(p) /\ StillThereFails(p)]_vars

\* A deprovision has failed at its existence check: the directory it removed
\* was created again by a concurrent provision, and the row is still there.
C13_Witness ==
  \E p \in Procs :
    /\ ReturnedErr(p, "deleteRepoFiles")
    /\ frames[p].err = "VerificationFailed"
    /\ Exists(fs, DeletedDir(frames[p]))
    /\ getRepoById(store, frames[p].id).id # 0

\* The commands of the worktree path of provision.
WorktreePcs ==
  {"wt_fetch", "ws_head", "ws_defb", "ws_co", "ws_comain", "ws_local", "ws_remote",
   "ws_add", "cs_list", "cs_remove", "cs_prune", "wt_verify"}
\* What the mode should be for the call of slot p, by the file system now.
WorktreeWanted(p) ==
  frames[p].wt /\ frames[p].branch # NoBranch /\ Exists(fs, BaseOf(frames[p]))
\* The step that looks for the base clone and stores the row: the row has
\* the worktree flag, and the call takes the worktree path, exactly when the
\* mode is wanted.
ModeResolved(p) ==
  (frames[p].pc = "testBase" /\ frames'[p].repo.id # 0)
    => /\ frames'[p].repo \in store' /\ frames'[p].repo \notin store
       /\ frames'[p].repo.isWorktree = WorktreeWanted(p)
       /\ (frames'[p].pc \in WorktreePcs) = WorktreeWanted(p)
\* The worktree path is left only by returning, and entered only at the
\* resolving step; git worktree add is run on it only, for a flagged row.
ModeKept(p) ==
  /\ (frames[p].pc # "testBase" /\ frames'[p].pc \in WorktreePcs)
       => frames[p].pc \in WorktreePcs
  /\ frames'[p].last = "worktree add"
       => frames[p].pc \in WorktreePcs /\ frames[p].repo.isWorktree

\* C14: provision takes the worktree path and stores its row with
\* isWorktree = true if and only if worktree was requested, a branch was
\* given and the base clone's directory exists when it is looked for; in
\* every other case the row has no worktree flag and no git worktree add is
\* run.
C14_WorktreeModeResolution ==
  [][\A p \in Procs :
       (Running(p, "cloneRepo") /\ frames'[p] # frames[p])
         => ModeResolved(p) /\ ModeKept(p)]_vars

\* A provision in worktree mode has succeeded: its row is flagged and its
\* directory is a worktree linked to the base clone.
C14_Witness ==
  /\ ReturnedOk(1, "cloneRepo")
  /\ frames[1].wt /\ frames[1].shouldWt
  /\ frames[1].ret.isWorktree
  /\ IsLinkedWt(fs, frames[1].ret.localPath)
  /\ \E r \in store : ~r.isWorktree

\* The ids that no row has, among those a caller may name.
UnknownIds == {id \in 1..nextId : getRepoById(store, id).id = 0}
\* The outcome x of a call: a failure, nothing run, nothing changed.
FailsUntouched(x, err) ==
  /\ x.f.pc = "ret" /\ ~x.f.ok /\ x.f.err = err
  /\ x.f.last = "" /\ ~x.f.failed
  /\ x.w = World

\* C15: called between operations with an id that has no row, deprovision,
\* switchBranch and pull fail with a not-found error, run no command and leave the store and
\* the directories as they were; the DELETE route answers 404 without calling
\* deprovision.
C15_UnknownId ==
  Quiescent =>
    \A id \in UnknownIds :
      /\ FailsUntouched(deleteRepoFilesCall(NewFrame("deleteRepoFiles"), World, id), "NotFound")
      /\ FailsUntouched(pullRepoCall(NewFrame("pullRepo"), World, id), "NotFound")
      /\ \A branch \in BranchNames :
           FailsUntouched(switchBranchCall(NewFrame("switchBranch"), World, id, branch), "NotFound")
      /\ FailsUntouched(deleteRoute(NewFrame("deleteRoute"), World, id), "404")
      /\ deleteRoute(NewFrame("deleteRoute"), World, id).f.op = "deleteRoute"

\* The DELETE route has answered 404 for an id whose row is gone (its
\* workspace was deprovisioned, or its provision failed), while another
\* workspace is in the store.
C15_Witness ==
  /\ ReturnedErr(1, "deleteRoute")
  /\ frames[1].err = "404"
  /\ frames[1].id < nextId
  /\ store # {}

\* The row of the store with the id of slot p's call, as the step found it
\* and as it left it.
PulledRow(p) == getRepoById(store, frames[p].id)
PulledRowAfter(p) == getRepoById(store', frames[p].id)

\* C16: pull runs exactly one pull command and ends; lastPulled of the
\* call's row is updated if and only if the command succeeded, nothing else
\* of the row changing; a failure is given to the caller, with no second
\* attempt and the row as it was; no other row changes in either case.
C16_PullFrame ==
  [][\A p \in Procs :
       (Running(p, "pullRepo") /\ frames'[p] # frames[p])
         => /\ frames[p].last = "" /\ frames'[p].last = "pull"
            /\ frames'[p].pc = "ret"
            /\ frames'[p].ok = (Pull(fs, frames[p].repo.localPath).ok /\ faults' = faults)
            /\ frames'[p].ok
                 => /\ PulledRowAfter(p).lastPulled # PulledRow(p).lastPulled
                    /\ PulledRowAfter(p) = [PulledRow(p) EXCEPT !.lastPulled = Now]
            /\ ~frames'[p].ok => frames'[p].err # "" /\ store' = store
            /\ \A r \in store : r.id # frames[p].id => r \in store'
            /\ \A r \in store' : r.id # frames[p].id => r \in store]_vars

\* A pull has succeeded on one of two workspaces: its
\* row has the new timestamp, the other row has never been pulled.
C16_Witness ==
  /\ ReturnedOk(1, "pullRepo")
  /\ getRepoById(store, frames[1].id).lastPulled = clock
  /\ \E r \in store : r.id # frames[1].id /\ r.lastPulled = 0

\* What the rev-parse of getCurrentBranch answers in the file system as it
\* is, for the workspace that slot p's call was given.
HeadAnswer(p) == RevParseHead(fs, frames[p].repo.localPath)

\* C17: getCurrentBranch never raises an error to its caller: whatever
\* workspace it was given and whatever its git command answered, it returns
\* the branch's short name or null, and it changes neither the record store
\* nor the file system.
C17_CurrentBranchTotal ==
  [][\A p \in Procs :
       (Running(p, "getCurrentBranch") /\ frames'[p] # frames[p])
         => /\ frames'[p].pc = "ret" /\ frames'[p].ok /\ frames'[p].err = ""
            /\ frames'[p].current =
                 IF HeadAnswer(p).ok /\ faults' = faults
                 THEN BranchResult(HeadOf(fs, frames[p].repo.localPath))
                 ELSE NullBranch
            /\ UNCHANGED <<store, nextId, fs>>]_vars

\* getCurrentBranch has returned null for a workspace of the store whose
\* directory is not a git repository.
C17_Witness ==
  /\ ReturnedOk(1, "getCurrentBranch")
  /\ frames[1].current = NullBranch
  /\ frames[1].failed
  /\ frames[1].repo \in store
  /\ ~IsValidRepo(fs, frames[1].repo.localPath)

\* The commands of createWorktreeSafely before its loop, and those of the
\* loop with cleanupStaleWorktree, each with its distance to the end of the
\* stretch it is in.
BeforeLoopRank ==
  [ws_head |-> 6, ws_defb |-> 5, ws_co |-> 4, ws_comain |-> 3, ws_local |-> 2,
   ws_remote |-> 1]
LoopRank == [ws_add |-> 3, cs_list |-> 2, cs_remove |-> 1, cs_prune |-> 1]
\* Slot p is inside createWorktreeSafely.
InCreateWorktreeSafely(p) ==
  /\ Running(p, "cloneRepo")
  /\ frames[p].pc \in DOMAIN BeforeLoopRank \cup DOMAIN LoopRank
\* A bound on the commands a call at frame f can still run.
CommandsLeft(f) ==
  IF f.pc \in DOMAIN BeforeLoopRank
  THEN 4 * maxRetries + BeforeLoopRank[f.pc]
  ELSE 4 * (maxRetries - f.attempt) + LoopRank[f.pc]

\* C18: one call of createWorktreeSafely runs git worktree add at most 3
\* times, and it ends, by returning or by raising, whatever the add and the
\* cleanup commands answer: inside the call a next command can always be
\* run, and each command run lowers a bound, never negative, on the
\* commands that are left.
C18_RetryBound ==
  /\ [](\A p \in Procs : frames[p].adds <= maxRetries)
  /\ [](InCreateWorktreeSafely(1)
          => CommandsLeft(frames[1]) >= 0 /\ ENABLED ProvisionStepAnyOutcome(1))
  /\ [][\A p \in Procs :
          (InCreateWorktreeSafely(p) /\ frames'[p] # frames[p]
             /\ frames'[p].pc \in DOMAIN BeforeLoopRank \cup DOMAIN LoopRank)
          => CommandsLeft(frames'[p]) < CommandsLeft(frames[p])]_vars

\* A call has run git worktree add three times, the first two having failed
\* for reasons outside the file system, and has created the worktree.
C18_Witness ==
  /\ ReturnedOk(1, "cloneRepo")
  /\ frames[1].adds = maxRetries
  /\ faults >= 2
  /\ IsLinkedWt(fs, frames[1].ret.localPath)

\* C19: createWorktreeSafely returns normally only if one of its git
\* worktree add commands succeeded: when the call has returned (cloneRepo is
\* about to verify the directory), the command it ran last is a successful
\* add and the worktree is there, linked to the base clone.
C19_ReturnsOnlyAfterAdd ==
  \A p \in Procs :
    (Running(p, "cloneRepo") /\ frames[p].pc = "wt_verify")
      => /\ frames[p].last = "worktree add"
         /\ IsLinkedWt(fs, TargetOf(frames[p]))

\* The step of slot p runs a command that no outside failure hits.
Unhindered == faults' = faults
\* The step of slot p is a git worktree add that fails with 'already used by
\* worktree'.
AddRefusedStep(p) ==
  /\ frames[p].pc = "ws_add" /\ Unhindered
  /\ WorktreeAdd(fs, BaseOf(frames[p]), TargetOf(frames[p]), frames[p].branch,
                 ~frames[p].branchEx).msg = "already used by worktree"
\* The step of slot p is the one in which cleanupStaleWorktree fails: its
\* listing fails, or its removal does (a failed prune is not a failure).
CleanupFailedStep(p) ==
  \/ /\ frames[p].pc = "cs_list"
     /\ ~(Unhindered /\ WorktreeList(fs, BaseOf(frames[p])).ok)
  \/ /\ frames[p].pc = "cs_remove"
     /\ ~(Unhindered /\ WorktreeRemove(fs, BaseOf(frames[p]), TargetOf(frames[p])).ok)
\* The step of slot p starts the next attempt.
NextAttemptStep(p) ==
  frames'[p].pc = "ws_add" /\ frames'[p].attempt = frames[p].attempt + 1

\* C20: in createWorktreeSafely an attempt that fails with 'already used by
\* worktree' is followed by one stale-worktree cleanup (a listing, then at
\* most one removal or prune) before the next attempt; a cleanup that fails
\* on the 3rd attempt ends the call with the error that names the branch and
\* advises manual intervention; one that fails on an earlier attempt is
\* followed by the next attempt.
C20_CleanupBetweenAttempts ==
  [][\A p \in Procs :
       (Running(p, "cloneRepo") /\ frames'[p] # frames[p])
         => /\ AddRefusedStep(p)
                 => frames'[p].pc = "cs_list" /\ frames'[p].attempt = frames[p].attempt
            /\ frames[p].pc = "cs_list"
                 => /\ frames[p].last = "worktree add"
                    /\ \/ frames'[p].pc \in {"cs_remove", "cs_prune"}
                             /\ frames'[p].attempt = frames[p].attempt
                       \/ CleanupFailedStep(p)
            /\ frames[p].pc \in {"cs_remove", "cs_prune"}
                 => frames[p].last = "worktree list"
                      /\ frames'[p].pc \notin {"cs_list", "cs_remove", "cs_prune"}
            /\ (CleanupFailedStep(p) /\ frames[p].attempt = maxRetries)
                 => /\ frames'[p].pc = "ret" /\ ~frames'[p].ok
                    /\ frames'[p].err = "WorktreeConflict"
            /\ (CleanupFailedStep(p) /\ frames[p].attempt < maxRetries)
                 => NextAttemptStep(p)]_vars

\* The branch was refused three times and the third cleanup failed: the
\* call has ended with the error that advises manual intervention.
C20_Witness ==
  /\ ReturnedErr(1, "cloneRepo")
  /\ frames[1].err = "WorktreeConflict"
  /\ frames[1].attempt = maxRetries /\ frames[1].adds = maxRetries
  /\ frames[1].last \in {"worktree list", "worktree remove --force"}

\* What the git worktree add of slot p's step answers.
AddAnswer(p) ==
  executeCommand(~Unhindered, fs,
                 WorktreeAdd(fs, BaseOf(frames[p]), TargetOf(frames[p]),
                             frames[p].branch, ~frames[p].branchEx))
\* The step of slot p is a git worktree add that fails with a message other
\* than 'already used by worktree'.
AddFailedStep(p) ==
  /\ frames[p].pc = "ws_add"
  /\ ~AddAnswer(p).ok /\ AddAnswer(p).msg # "already used by worktree"

\* C21: in createWorktreeSafely a git worktree add that fails with a message
\* other than 'already used by worktree' ends the call with an error when it
\* is the 3rd attempt (the row is then removed by cloneRepo's catch); on
\* attempts 1 and 2 the next step is the add of the next attempt, with no
\* cleanup in between: the cleanup is entered only from a refused add.
C21_OtherAddFailure ==
  [][\A p \in Procs :
       (Running(p, "cloneRepo") /\ frames'[p] # frames[p])
         => /\ (AddFailedStep(p) /\ frames[p].attempt = maxRetries)
                 => /\ frames'[p].pc = "ret" /\ ~frames'[p].ok
                    /\ frames'[p].err = "WorktreeFailed"
                    /\ getRepoById(store', frames[p].repo.id) = NoRepo
            /\ (AddFailedStep(p) /\ frames[p].attempt < maxRetries)
                 => /\ NextAttemptStep(p)
                    /\ frames'[p].last = "worktree add"
                    /\ store' = store
            /\ (frames[p].pc = "ws_add" /\ frames'[p].pc = "ret")
                 => frames[p].attempt = maxRetries /\ AddFailedStep(p)
            /\ frames'[p].pc = "cs_list" => AddRefusedStep(p)]_vars

\* Three adds failed, none of them refused for the branch being in use, and
\* the call has ended with the error of the last attempt.
C21_Witness ==
  /\ ReturnedErr(1, "cloneRepo")
  /\ frames[1].err = "WorktreeFailed"
  /\ frames[1].attempt = maxRetries /\ frames[1].adds = maxRetries
  /\ frames[1].last = "worktree add"
  /\ getRepoById(store, frames[1].repo.id) = NoRepo

\* Slot p's row, as the store holds it after the step.
RowAfter(p) == getRepoById(store', frames[p].repo.id)
\* The step of slot p ends the call with an error and without the row.
FailsRowRemoved(p) ==
  frames'[p].pc = "ret" /\ ~frames'[p].ok /\ RowAfter(p) = NoRepo

\* C22: on the worktree path of provision the fetch in the base clone is the
\* first command after the insert and createWorktreeSafely starts only after
\* it succeeded; a failed fetch ends the call with an error, the row removed
\* and no git worktree add run.  After createWorktreeSafely the worktree
\* directory is looked for: if it is there the row is marked ready and
\* returned, if not (or if the test fails) the call ends with an error and
\* the row is removed.  The call returns normally from no other place.
C22_WorktreePath ==
  [][\A p \in Procs :
       (Running(p, "cloneRepo") /\ frames'[p] # frames[p])
         => /\ (frames[p].pc = "testBase" /\ frames'[p].shouldWt /\ frames'[p].pc # "ret")
                 => frames'[p].pc = "wt_fetch" /\ frames'[p].adds = 0
            /\ frames[p].pc = "wt_fetch"
                 => /\ frames'[p].last = "fetch" /\ frames'[p].adds = 0
                    /\ IF Unhindered /\ Fetch(fs, BaseOf(frames[p])).ok
                       THEN frames'[p].pc = "ws_head"
                       ELSE FailsRowRemoved(p)
            /\ frames'[p].pc = "ws_head" => frames[p].pc = "wt_fetch"
            /\ frames[p].pc = "wt_verify"
                 => IF Unhindered /\ Exists(fs, TargetOf(frames[p]))
                    THEN /\ frames'[p].pc = "ret" /\ frames'[p].ok
                         /\ RowAfter(p) # NoRepo /\ RowAfter(p).cloneStatus = "ready"
                    ELSE FailsRowRemoved(p)
            /\ (frames[p].shouldWt /\ frames[p].pc # "testBase"
                  /\ frames'[p].pc = "ret" /\ frames'[p].ok)
                 => frames[p].pc = "wt_verify"]_vars

\* createWorktreeSafely has returned without a worktree, no command having
\* failed for an outside reason; the verification found no directory and
\* the call has ended with an error, its row removed.
C22_Witness ==
  /\ ReturnedErr(1, "cloneRepo")
  /\ frames[1].err = "VerificationFailed"
  /\ frames[1].shouldWt /\ frames[1].adds = maxRetries
  /\ faults = 0
  /\ ~Exists(fs, TargetOf(frames[1]))
  /\ getRepoById(store, frames[1].repo.id) = NoRepo

\* The git-level removal of a worktree in deprovision, and the commands of
\* deprovision that touch the directory or come after.
GitRemovalPcs == {"del_wt", "del_wtforce", "del_prune", "del_wtforce2"}
\* What the git worktree remove and the git worktree prune of slot p's step
\* answer.
RemoveAnswer(p) ==
  executeCommand(~Unhindered, fs,
                 WorktreeRemove(fs, extractRepoName(frames[p].repo.repoUrl),
                                DeletedDir(frames[p])))
PruneAnswer(p) ==
  executeCommand(~Unhindered, fs,
                 WorktreePrune(fs, extractRepoName(frames[p].repo.repoUrl)))
\* Slot p's row is that of a worktree.
RowIsWorktree(f) == f.repo.isWorktree /\ f.repo.branch # NoBranch

\* C23: deprovision of a worktree row starts with the git-level removal,
\* before rm -rf: the graceful remove; if it failed the forced remove; if
\* that failed the prune and, if the prune succeeded, the forced remove
\* again.  A step of the escalation that succeeds, the prune excepted, and
\* the last step whatever it answers, lead to rm -rf of the directory; no
\* step of the escalation ends the call, touches the directory's row or
\* comes after rm -rf.  A row that is no worktree goes to rm -rf at once.
C23_TeardownEscalation ==
  [][\A p \in Procs :
       /\ (frames[p].op = "idle" /\ frames'[p].op = "deleteRepoFiles"
             /\ frames'[p].pc # "ret")
            => frames'[p].pc = IF RowIsWorktree(frames'[p]) THEN "del_wt" ELSE "del_rm"
       /\ (Running(p, "deleteRepoFiles") /\ frames'[p] # frames[p])
            => /\ frames[p].pc = "del_wt"
                    => frames'[p].pc = IF RemoveAnswer(p).ok THEN "del_rm" ELSE "del_wtforce"
               /\ frames[p].pc = "del_wtforce"
                    => frames'[p].pc = IF RemoveAnswer(p).ok THEN "del_rm" ELSE "del_prune"
               /\ frames[p].pc = "del_prune"
                    => frames'[p].pc = IF PruneAnswer(p).ok THEN "del_wtforce2" ELSE "del_rm"
               /\ frames[p].pc = "del_wtforce2" => frames'[p].pc = "del_rm"
               /\ frames[p].pc \in GitRemovalPcs
                    => /\ RowIsWorktree(frames[p])
                       /\ frames[p].last \notin {"rm -rf", "test -d"}
                       /\ store' = store
               /\ frames'[p].pc \in GitRemovalPcs => frames[p].pc \in GitRemovalPcs
               /\ frames'[p].pc = "del_rm" => frames[p].pc \in GitRemovalPcs]_vars

\* Every step of the escalation has failed (the worktree is still
\* registered in the base clone and still there) and deprovision stands at
\* rm -rf of the directory.
C23_Witness ==
  /\ Running(1, "deleteRepoFiles") /\ frames[1].pc = "del_rm"
  /\ frames[1].last = "worktree remove --force"
  /\ IsLinkedWt(fs, DeletedDir(frames[1]))
  /\ faults >= 3

\* The existence check of slot p's step was hit by no outside failure and
\* found the directory gone.
ConfirmedGone(p) ==
  /\ frames[p].pc = "del_check"
  /\ Unhindered /\ ~Exists(fs, DeletedDir(frames[p]))

\* C24: in deprovision the prune that follows the removal of a worktree's
\* directory is run only from the existence check that found the directory
\* gone, only for a worktree row, and then always; the directory is still
\* gone when it runs; whatever the prune answers, the step deletes the row
\* and the call returns normally.
C24_FollowUpPrune ==
  [][\A p \in Procs :
       (Running(p, "deleteRepoFiles") /\ frames'[p] # frames[p])
         => /\ frames'[p].pc = "del_prune2"
                 => ConfirmedGone(p) /\ RowIsWorktree(frames[p])
            /\ (ConfirmedGone(p) /\ RowIsWorktree(frames[p]))
                 => frames'[p].pc = "del_prune2" /\ store' = store
            /\ frames[p].pc = "del_prune2"
                 => /\ ~Exists(fs, DeletedDir(frames[p]))
                    /\ frames'[p].pc = "ret" /\ frames'[p].ok
                    /\ frames'[p].last = "worktree prune"
                    /\ getRepoById(store, frames[p].id) # NoRepo
                    /\ getRepoById(store', frames[p].id) = NoRepo]_vars

\* Deprovision of a worktree has returned normally and its row is gone,
\* although the final prune failed: the base clone still lists the removed
\* directory as a worktree.
C24_Witness ==
  /\ ReturnedOk(1, "deleteRepoFiles")
  /\ frames[1].last = "worktree prune"
  /\ Registered(fs, extractRepoName(frames[1].repo.repoUrl), DeletedDir(frames[1]))
  /\ ~Exists(fs, DeletedDir(frames[1]))
  /\ getRepoById(store, frames[1].id) = NoRepo

\* The step of slot p ends the call with the error 'Cannot clone: directory
\* ... exists and could not be removed', the row removed.
FailsCannotClone(p) == FailsRowRemoved(p) /\ frames'[p].err = "CannotClone"

\* C25: on the clone path of provision the target path is looked at first;
\* a directory found there is removed with rm -rf and looked for again, and
\* the clone is run only from a look that found no directory.  If rm -rf
\* fails, or the second look fails or still finds the directory, the call
\* ends with the error 'Cannot clone ... could not be removed', the row is
\* removed and no clone has been run.
C25_StaleDirectory ==
  [][\A p \in Procs :
       (Running(p, "cloneRepo") /\ frames'[p] # frames[p])
         => /\ (frames[p].pc = "test" /\ Unhindered)
                 => frames'[p].pc = IF Exists(fs, TargetOf(frames[p])) THEN "rm" ELSE "clone"
            /\ frames[p].pc = "rm"
                 => /\ frames[p].last = "test -d"
                    /\ IF Unhindered
                       THEN frames'[p].pc = "verify" /\ ~Exists(fs', TargetOf(frames[p]))
                       ELSE FailsCannotClone(p) /\ fs' = fs
            /\ frames[p].pc = "verify"
                 => /\ frames[p].last = "rm -rf"
                    /\ IF Unhindered /\ ~Exists(fs, TargetOf(frames[p]))
                       THEN frames'[p].pc = "clone"
                       ELSE FailsCannotClone(p) /\ fs' = fs
            /\ frames'[p].pc = "clone"
                 => /\ frames[p].pc \in {"test", "verify"}
                    /\ ~Exists(fs, TargetOf(frames[p]))
                    /\ frames'[p].last = "test -d"
            /\ frames'[p].pc = "rm" => frames[p].pc = "test"
            /\ frames'[p].pc = "verify" => frames[p].pc = "rm"]_vars

\* A directory was in the way, its removal has failed, and the call has
\* ended with 'Cannot clone', the directory still there and the row removed.
C25_Witness ==
  /\ ReturnedErr(1, "cloneRepo")
  /\ frames[1].err = "CannotClone"
  /\ frames[1].last = "rm -rf"
  /\ Exists(fs, TargetOf(frames[1]))
  /\ getRepoById(store, frames[1].repo.id) = NoRepo

\* What git clone of slot p's step answers when no outside failure hits it.
CloneAnswer(p) ==
  Clone(fs, frames[p].url, frames[p].branch, TargetOf(frames[p]))
\* The branch-scoped clone of slot p's step fails because the remote has no
\* branch of the requested name.
RemoteBranchMissingStep(p) ==
  /\ frames[p].pc = "clone" /\ frames[p].branch # NoBranch /\ Unhindered
  /\ ~CloneAnswer(p).ok /\ CloneAnswer(p).msg = "Remote branch not found"
\* The fallback of the clone path: the clone of the default branch, the
\* lookup of the local ref, the checkout.
FallbackSteps(p) ==
  /\ frames[p].pc = "clone2"
       => IF Unhindered /\ Clone(fs, frames[p].url, NoBranch, TargetOf(frames[p])).ok
          THEN frames'[p].pc = "local"
          ELSE frames'[p].pc = "ret" /\ ~frames'[p].ok
  /\ frames[p].pc = "local"
       => /\ frames'[p].pc = "co"
          /\ frames'[p].localEx
               = (Unhindered /\ VerifyLocal(fs, TargetOf(frames[p]), frames[p].branch).ok)
  /\ frames[p].pc = "co"
       => /\ frames'[p].pc = "ret"
          /\ frames'[p].last = IF frames[p].localEx THEN "checkout" ELSE "checkout -b"
          /\ frames'[p].ok => HeadOf(fs', TargetOf(frames[p])) = frames[p].branch

\* C26: on the clone path with a branch B, a branch-scoped clone that fails
\* because the remote has no branch B is followed by the clone of the
\* default branch, then by checkout -b B when no local ref B exists and by
\* checkout B when one does, so that a call that returns normally leaves the
\* directory on B; a clone that fails for any other reason, or with no
\* branch requested, ends the call with the error, and no second clone runs.
C26_RemoteBranchFallback ==
  [][\A p \in Procs :
       (Running(p, "cloneRepo") /\ frames'[p] # frames[p])
         => /\ RemoteBranchMissingStep(p) => frames'[p].pc = "clone2"
            /\ FallbackSteps(p)
            /\ (frames[p].pc = "clone" /\ ~RemoteBranchMissingStep(p)
                  /\ ~(Unhindered /\ CloneAnswer(p).ok))
                 => frames'[p].pc = "ret" /\ ~frames'[p].ok
            /\ frames'[p].pc = "clone2" => RemoteBranchMissingStep(p)]_vars

\* The commands of provision in a base directory that exists, worktree mode
\* not being used.
BaseReusePcs == {"base_valid", "base_fetch", "base_remote", "base_local", "base_co"}
\* rev-parse --git-dir of slot p's step finds a git repository.
FoundValid(p) == Unhindered /\ IsValidRepo(fs, BaseOf(frames[p]))
\* The step of slot p ends the call normally, the row marked ready.
ReturnsReady(p) ==
  /\ frames'[p].pc = "ret" /\ frames'[p].ok
  /\ RowAfter(p) # NoRepo /\ RowAfter(p).cloneStatus = "ready"

BesideBase(p) ==
  /\ Running(p, "cloneRepo") /\ frames[p].pc # "testBase"
  /\ frames[p].branch # NoBranch /\ frames[p].baseEx /\ ~frames[p].shouldWt
  /\ IsClone(fs, BaseOf(frames[p]))
  /\ \E r \in store : /\ r.id # frames[p].repo.id /\ r.cloneStatus = "ready"
                      /\ r.localPath = BaseOf(frames[p])

\* C28: a provision call for a branch that finds the base clone and does
\* not use worktree mode leaves the base clone on the branch it has checked
\* out, and when it returns normally the branch is checked out in a
\* directory of its own, cloned for it (as long as no command has failed
\* for an outside reason).
C28_CloneBesideBase ==
  [][\A p \in Procs :
       (BesideBase(p) /\ frames'[p] # frames[p] /\ faults' = 0)
         => /\ IsClone(fs', BaseOf(frames[p]))
            /\ HeadOf(fs', BaseOf(frames[p])) = HeadOf(fs, BaseOf(frames[p]))
            /\ (frames'[p].pc = "ret" /\ frames'[p].ok)
                 => /\ TargetOf(frames[p]) # BaseOf(frames[p])
                    /\ IsClone(fs', TargetOf(frames[p]))
                    /\ HeadOf(fs', TargetOf(frames[p])) = frames[p].branch]_vars

\* Slots p and q provision the same (repositoryUrl, branch) with the same
\* worktree preference, and both calls are in progress.
SameProvision(p, q) ==
  /\ p # q
  /\ Running(p, "cloneRepo") /\ Running(q, "cloneRepo")
  /\ frames[p].url = frames[q].url /\ frames[p].branch = frames[q].branch
  /\ frames[p].wt = frames[q].wt
\* Slot p has passed the lookup and has not yet inserted.
PastLookup(p) == Running(p, "cloneRepo") /\ frames[p].pc = "testBase"
\* Slot p has inserted (or been handed the row that was there) and goes on
\* to the directory.
Materializing(p) ==
  Running(p, "cloneRepo") /\ frames[p].pc # "testBase" /\ frames[p].repo.id # 0

\* C29: nothing serializes provision calls.  The lookup of an existing row
\* is the step that starts the call and changes nothing; the insert is a
\* later step, after an awaited command, and the only step of the call that
\* adds a row; a call passes the lookup whenever the store holds no row for
\* the pair, whatever other calls are in progress, and a call past the
\* lookup goes on to the directory whether its insert added a row or found
\* the row another call had inserted meanwhile.
C29_LookupInsertRace ==
  [][\A p \in Procs :
       /\ (frames[p].op = "idle" /\ frames'[p].op = "cloneRepo")
            => /\ store' = store /\ fs' = fs
               /\ (frames'[p].pc = "testBase")
                    = ~HasRow(store, frames'[p].url, frames'[p].branch)
       /\ (Running(p, "cloneRepo") /\ frames'[p] # frames[p]
             /\ \E r \in store' : \A q \in store : q.id # r.id)
            => /\ frames[p].pc = "testBase"
               /\ ~HasRow(store, frames[p].url, frames[p].branch)
       /\ (PastLookup(p) /\ frames'[p] # frames[p] /\ Unhindered)
            => Materializing(p)']_vars

\* Two calls for the same pair both passed the lookup before either
\* inserted, and both now stand at git clone into the same directory.
C29_Witness ==
  /\ SameProvision(1, 2) /\ Materializing(1) /\ Materializing(2)
  /\ frames[1].pc = "clone" /\ frames[2].pc = "clone"
  /\ TargetOf(frames[1]) = TargetOf(frames[2])
  /\ frames[1].repo.id = frames[2].repo.id
  /\ ~Exists(fs, TargetOf(frames[1]))

\* Slot q holds the failed outcome of a provision call for the pair that
\* slot p's provision call is working on.
FailedBeside(p, q) ==
  /\ q # p
  /\ frames[q].op = "cloneRepo" /\ frames[q].pc = "ret" /\ ~frames[q].ok
  /\ frames[q].url = frames[p].url /\ frames[q].branch = frames[p].branch

\* C30: when a provision call returns normally, the store holds a row with
\* the returned id, marked ready, also when another provision call for the
\* same pair ran beside it and failed.
C30_ReturnedRowInStore ==
  [][\A p \in Procs :
       (/\ Running(p, "cloneRepo") /\ frames'[p].pc = "ret" /\ frames'[p].ok
        /\ \E q \in Procs : FailedBeside(p, q))
         => /\ getRepoById(store', frames'[p].ret.id) # NoRepo
            /\ getRepoById(store', frames'[p].ret.id).cloneStatus = "ready"]_vars

\* The rows of the store that the step removes.
RowsRemoved == {r \in store : \A q \in store' : q.id # r.id}

\* C31: the step in which a provision call fails removes no row but the one
\* that the call's own insert added; a row the call was handed because its
\* insert was ignored stays.
C31_CompensatesOwnRow ==
  [][\A p \in Procs :
       (Running(p, "cloneRepo") /\ frames'[p].pc = "ret" /\ ~frames'[p].ok)
         => \A r \in RowsRemoved : frames[p].inserted /\ r.id = frames[p].repo.id]_vars

\* Directory d holds a working copy of a repository other than url.
HoldsOther(g, d, url) == IsValidRepo(g, d) /\ UrlOf(g, d) # url

\* C32: a provision call for a URL leaves every directory that holds a
\* working copy of another URL as it is, and the directory of the row it
\* returns does not hold a working copy of another URL.
C32_OneUrlPerDirectory ==
  [][\A p \in Procs :
       (Running(p, "cloneRepo") /\ frames'[p] # frames[p])
         => /\ \A d \in DirNames : HoldsOther(fs, d, frames[p].url) => fs'[d] = fs[d]
            /\ (frames'[p].pc = "ret" /\ frames'[p].ok)
                 => ~HoldsOther(fs', frames'[p].ret.localPath, frames[p].url)]_vars

\* Row r is ready, has a pinned branch, and its directory is checked out on it.
OnPinnedBranch(g, r) ==
  /\ r.cloneStatus = "ready" /\ r.branch # NoBranch
  /\ IsValidRepo(g, r.localPath) /\ HeadOf(g, r.localPath) = r.branch

\* C33: with no command failing for an outside reason, a step of a
\* provision call leaves the directory of every ready row of another
\* (repositoryUrl, branch), as long as it is a repository, on the row's
\* pinned branch.
C33_PinnedBranchKept ==
  [][\A p \in Procs :
       (Running(p, "cloneRepo") /\ frames'[p] # frames[p] /\ faults' = 0)
         => \A r \in store :
              (/\ OnPinnedBranch(fs, r)
               /\ ~(r.repoUrl = frames[p].url /\ r.branch = frames[p].branch))
                => (IsValidRepo(fs', r.localPath)
                      => HeadOf(fs', r.localPath) = r.branch)]_vars

\* A ready row references d, and d is a repository.
Claimed(d) ==
  /\ \E r \in store : r.cloneStatus = "ready" /\ LastSegment(r.localPath) = d
  /\ IsValidRepo(fs, d)

ReconcileActs(p) ==
  Running(p, "cleanupOrphanedDirectories") /\ frames'[p] # frames[p]

\* The step is one removal attempt of the loop: one orphan leaves the list,
\* and the call returns exactly when none is left.
OneAttempt(p) ==
  /\ \E dir \in frames[p].todo :
       /\ frames'[p].todo = frames[p].todo \ {dir}
       /\ \A d \in DirNames \ {dir} : fs'[d] = fs[d]
  /\ (frames'[p].pc = "ret") = (frames'[p].todo = {})
  /\ frames'[p].pc # "ret" => frames'[p].pc = "orph_rm"

\* C35: reconcile leaves the record store as it is when it is called and in
\* each of its steps; in the listing step it removes nothing; each step of
\* its loop is one removal attempt after which the loop goes on to the
\* orphans left, whether the removal failed or not; and when it returns it
\* returns normally, whatever command failed.
C35_ReconcileBestEffort ==
  [][\A p \in Procs :
       /\ (frames[p].op = "idle" /\ frames'[p].op = "cleanupOrphanedDirectories")
            => store' = store /\ nextId' = nextId /\ fs' = fs
       /\ ReconcileActs(p)
            => /\ store' = store /\ nextId' = nextId
               /\ frames'[p].pc = "ret" => frames'[p].ok
               /\ frames[p].pc = "ls" => fs' = fs
               /\ frames[p].pc = "orph_rm" => OneAttempt(p)]_vars

\* A removal of the reconcile call has failed, and the call is at the
\* removal of another orphan.
C35_Witness ==
  /\ Running(2, "cleanupOrphanedDirectories")
  /\ frames[2].pc = "orph_rm" /\ frames[2].last = "rm -rf" /\ frames[2].failed
  /\ frames[2].todo # {}
  /\ \E d \in DirNames \ frames[2].todo : Exists(fs, d) /\ ~IsHidden(d) /\ ~Tracked(d)

\* Slot p calls switchBranch, or its switchBranch call takes a step.
SwitchBranchActs(p) ==
  \/ frames[p].op = "idle" /\ frames'[p].op = "switchBranch"
  \/ Running(p, "switchBranch") /\ frames'[p] # frames[p]

\* Row q is row r with nothing changed but its status and last-pulled time.
SameIdentity(r, q) ==
  q = [r EXCEPT !.cloneStatus = q.cloneStatus, !.lastPulled = q.lastPulled]

\* C36: a switchBranch call, whether it succeeds or fails, leaves the store
\* as it is in each of its steps; and in every step of every operation a
\* row that stays in the store keeps its id, repositoryUrl, localPath and
\* branch (and every other field but cloneStatus and lastPulled).
C36_RowIdentity ==
  [][/\ \A p \in Procs : SwitchBranchActs(p) => store' = store /\ nextId' = nextId
     /\ \A r \in store : \A q \in store' : q.id = r.id => SameIdentity(r, q)]_vars

\* switchBranch has returned normally with the directory of row 1 on a
\* branch other than the row's, the row is as it was at the call, and a
\* row has been pulled before.
C36_Witness ==
  /\ ReturnedOk(1, "switchBranch")
  /\ frames[1].repo \in store
  /\ frames[1].repo.branch # frames[1].branch
  /\ HeadOf(fs, frames[1].repo.localPath) = frames[1].branch
  /\ \E r \in store : r.lastPulled # 0

\* The startup's reconcile call is in progress.
StartupReconcileRunning == frames[1].op = "cleanupOrphanedDirectories"
\* A request is being handled.
RequestHandled == frames[2].op # "idle"
\* The order of startup and serving: requests are handled only once serve()
\* has been called, the startup's reconcile call is in progress only while
\* the startup awaits it, and it is over when serve() is called.
ServedAfterStartup ==
  /\ RequestHandled => startup.pc = "serving"
  /\ StartupReconcileRunning => startup.pc = "cleanup_wait"
  /\ startup.pc = "serving" => ~StartupReconcileRunning

\* C37 (as stated): reconcile has run once, and is over, when the server
\* starts accepting requests; no request is handled while it runs; and the
\* server starts whatever fails during the startup.
C37_StartupOrdering ==
  /\ [](ServedAfterStartup /\ (startup.pc = "serving" => startup.cleanups = 1))
  /\ <>(startup.pc = "serving")

\* C37 (amended): reconcile runs at most once during startup, not at all
\* when one of the directory steps before it has failed, and otherwise
\* once; it is over when the server starts accepting requests; no request
\* is handled while it runs; its own failures never reach the startup's
\* catch; and the server starts whichever awaited step of the startup fails.
C37_StartupOrderingSkipped ==
  /\ [](/\ ServedAfterStartup
        /\ startup.cleanups <= 1
        /\ startup.logged # "cleanup"
        /\ startup.pc = "serving"
             => startup.cleanups = (IF startup.logged = "directories" THEN 0 ELSE 1))
  /\ <>(startup.pc = "serving")

\* The server is handling a provision request after a startup in which
\* reconcile ran, one of its removals failed, and the start of the OpenCode
\* server failed as well.
C37_Witness ==
  /\ startup.pc = "serving" /\ startup.cleanups = 1 /\ startup.logged = "opencode"
  /\ faults >= 2
  /\ Running(2, "cloneRepo") /\ frames[2].repo.id # 0
  /\ \E d \in DirNames : fs[d] = JunkDir /\ ~IsHidden(d)

\* The permissions pending.
Pending == {permissions[i] : i \in 1..Len(permissions)}

\* C38: the pending list holds no two permissions of one id; an add event
\* for an id that is pending leaves the list as it is; currentPermission is
\* null when the list is empty and otherwise the pending permission that was
\* added first; and pendingCount is the number of permissions pending.
C38_PermissionQueue ==
  /\ \A i, j \in 1..Len(permissions) :
       i # j => permissions[i].id # permissions[j].id
  /\ \A event \in PermissionEvents :
       (/\ event.type = "add" /\ event.permission # NoPermission
        /\ \E q \in Pending : q.id = event.permission.id)
         => onPermissionEvent(permissions, event) = permissions
  /\ IF permissions = <<>>
     THEN currentPermission(permissions) = NoPermission
     ELSE /\ currentPermission(permissions) \in Pending
          /\ \A q \in Pending : currentPermission(permissions).n <= q.n
  /\ pendingCount(permissions) = Cardinality({q.id : q \in Pending})

\* Two permissions are pending after four events of which the first's
\* permission is pending no more; the current one is the one added second.
C38_Witness ==
  /\ calls = MaxEvents
  /\ Len(permissions) = 2
  /\ permissions[1].n = 2 /\ permissions[2].n = 4
  /\ permissions[1].id = "p3"
  /\ currentPermission(permissions) = [id |-> "p3", n |-> 2]
  /\ pendingCount(permissions) = 2

====
